---- MODULE Spec2Model ----
(***************************************************************************)
(* EigenVault operator: the order book, the matching engine and the        *)
(* matching tick (operator/src/matching).                                  *)
(*                                                                         *)
(* Representation.  f64 amounts and prices are integers counting halves    *)
(* (Fx(1999) is 1999.0), so that the mid-point of two prices is exact.     *)
(* Time is the Unix time in seconds read from chrono::Utc::now(); one call  *)
(* of an operation reads one instant.  A BTreeMap is a function whose      *)
(* domain is its key set, a HashMap likewise; a Vec is a sequence; an      *)
(* Option is the empty or the one-element sequence.                        *)
(***************************************************************************)
EXTENDS Integers, Sequences, FiniteSets, TLC

VARIABLES
    now,              \* chrono::Utc::now().timestamp()
    order_book,       \* a stand-alone OrderBook
    ret,              \* how the last call of the stand-alone OrderBook ended
    fm_orders,        \* the argument of the last find_matches call
    fm_result,        \* what the last find_matches call returned
    pending_orders,   \* MatchingEngine.pending_orders
    recent_matches,   \* MatchingEngine.recent_matches
    tick_result,      \* what the last process_pending_orders call returned
    gossip,           \* the GossipProtocol of every node
    net,              \* the GossipMessage copies sent and not yet delivered
    issued,           \* the message ids handed out so far (uuid::Uuid::new_v4)
    send_count,       \* how often send_gossip_message sent each message id
    handled,          \* what the last handle_incoming_message call did
    processed,        \* <<node, message id>> of the calls that returned true
    sel,              \* the last select_gossip_targets call: input and result
    encryption,       \* a NetworkEncryption
    envelope,         \* what the last successful encryption produced
    nonces_used,      \* the nonces of the encryptions under the current key
    crypto_ret,       \* what the last call that returns a Result returned
    tick_pc,          \* where the matching task is in process_pending_orders
    add_call,         \* the add_encrypted_order call in progress, if any
    lock_run,         \* per task: the operation it runs and how far it has got
    p2p_peers,        \* P2PNetwork.peers: peer id -> its PeerConnection
    health,           \* what the last health_check call returned
    query             \* what the last read-only order book call returned

vars == <<now, order_book, ret, fm_orders, fm_result,
          pending_orders, recent_matches, tick_result,
          gossip, net, issued, send_count, handled, processed, sel,
          encryption, envelope, nonces_used, crypto_ret, tick_pc, add_call,
          lock_run, p2p_peers, health, query>>

---------------------------------------------------------------------------
(* Bounds of the model *)

\* Price-level entries of the stand-alone book.
MaxOrders == 2

\* The stand-alone book's order count, which re-adding an id lets drift.
MaxCount == 3

\* Orders handed to one find_matches call.
MaxBatch == 2

\* Entries of the pending set of the running engine.
MaxPending == 3

\* Entries of a pending set handed to one tick.
MaxTick == 3

\* Nodes of the gossip network, connected in a line.
NumNodes == 6

\* Peers of the node whose target choice is examined.
MaxPeers == 10

\* Key rotations of the encryption layer.
MaxRotations == 1

\* The values a random 96-bit nonce is drawn from.
NumNonces == 2

\* The instants the clock takes: a start, one hour later and the second after.
Instants == {0, 3600, 3601}

---------------------------------------------------------------------------
(* Values *)

Fx(x) == 2 * x

Min(a, b) == IF a <= b THEN a ELSE b

SetMax(S) == CHOOSE x \in S : \A y \in S : y <= x

SetMin(S) == CHOOSE x \in S : \A y \in S : x <= y

None == <<>>

Some(x) == <<x>>

EmptyMap == [k \in {} |-> <<>>]

\* An f64 that is NaN or an infinity; no arithmetic of the model meets it.
NonFinite == -1

\* serde_json writes a finite f64 as a number and any other as null (here
\* the empty sequence); it reads an f64 from a number only.
JsonF64(x) == IF x = NonFinite THEN None ELSE Some(x)

MapPut(m, k, v) == [x \in (DOMAIN m) \cup {k} |-> IF x = k THEN v ELSE m[x]]

MapDel(m, k) == [x \in (DOMAIN m) \ {k} |-> m[x]]

\* Every order in which a HashMap may hand out the keys S.
Orderings(S) ==
    {s \in [1..Cardinality(S) -> S] : \A i, j \in 1..Cardinality(S) : s[i] = s[j] => i = j}

RECURSIVE Flatten(_)
Flatten(ss) == IF ss = <<>> THEN <<>> ELSE Head(ss) \o Flatten(Tail(ss))

---------------------------------------------------------------------------
(* orderbook.rs: Order *)

OrderNew(id, trader, pool_key, order_type, amount, price, deadline, t) ==
    [id |-> id, trader |-> trader, pool_key |-> pool_key, order_type |-> order_type,
     amount |-> amount, price |-> price, status |-> "Pending",
     timestamp |-> t, deadline |-> deadline]

IsExpired(order, t) == t > order.deadline

IsActive(order, t) ==
    order.status \in {"Pending", "PartiallyFilled"} /\ ~IsExpired(order, t)

---------------------------------------------------------------------------
(* orderbook.rs: OrderBook *)

OrderBookNew(pool_key) ==
    [pool_key |-> pool_key, buy_orders |-> EmptyMap, sell_orders |-> EmptyMap,
     orders_by_id |-> EmptyMap, total_orders |-> 0]

\* A level left in the order of arrival.
Unsorted(s) == s

\* Vec::sort_by(|a, b| a.timestamp.cmp(&b.timestamp)): a stable sort.
RECURSIVE SortByTimestamp(_)
SortByTimestamp(s) ==
    IF s = <<>> THEN <<>>
    ELSE LET rest == SortByTimestamp(SubSeq(s, 1, Len(s) - 1))
             x == s[Len(s)]
             keep == {i \in 1..Len(rest) : rest[i].timestamp <= x.timestamp}
             n == IF keep = {} THEN 0 ELSE SetMax(keep)
         IN SubSeq(rest, 1, n) \o <<x>> \o SubSeq(rest, n + 1, Len(rest))

LevelPush(levels, order) ==
    LET at == IF order.price \in DOMAIN levels THEN levels[order.price] ELSE <<>>
    IN MapPut(levels, order.price, SortByTimestamp(Append(at, order)))

\* add_order without the check of the deadline.
AddOrderUnchecked(book, order, t) ==
    [ok |-> TRUE, err |-> "",
     book |-> [book EXCEPT
         !.buy_orders = IF order.order_type = "Buy" THEN LevelPush(@, order) ELSE @,
         !.sell_orders = IF order.order_type = "Sell" THEN LevelPush(@, order) ELSE @,
         !.orders_by_id = MapPut(@, order.id, order),
         !.total_orders = @ + 1]]

AddOrder(book, order, t) ==
    IF IsExpired(order, t)
    THEN [ok |-> FALSE, err |-> "ExpiredOrder", book |-> book]
    ELSE [ok |-> TRUE, err |-> "",
          book |-> [book EXCEPT
              !.buy_orders = IF order.order_type = "Buy" THEN LevelPush(@, order) ELSE @,
              !.sell_orders = IF order.order_type = "Sell" THEN LevelPush(@, order) ELSE @,
              !.orders_by_id = MapPut(@, order.id, order),
              !.total_orders = @ + 1]]

LevelRetain(levels, price_key, order_id) ==
    IF price_key \in DOMAIN levels
    THEN LET kept == SelectSeq(levels[price_key], LAMBDA o : o.id # order_id)
         IN IF kept = <<>> THEN MapDel(levels, price_key)
            ELSE MapPut(levels, price_key, kept)
    ELSE levels

RemoveOrder(book, order_id) ==
    IF order_id \in DOMAIN book.orders_by_id
    THEN LET order == book.orders_by_id[order_id]
         IN [removed |-> Some(order),
             book |-> [book EXCEPT
                 !.orders_by_id = MapDel(@, order_id),
                 !.buy_orders = IF order.order_type = "Buy"
                                THEN LevelRetain(@, order.price, order_id) ELSE @,
                 !.sell_orders = IF order.order_type = "Sell"
                                 THEN LevelRetain(@, order.price, order_id) ELSE @,
                 !.total_orders = IF @ > 0 THEN @ - 1 ELSE 0]]
    ELSE [removed |-> None, book |-> book]

\* The keys of a BTreeMap, ascending.
RECURSIVE Ascending(_)
Ascending(S) ==
    IF S = {} THEN <<>> ELSE <<SetMin(S)>> \o Ascending(S \ {SetMin(S)})

Reverse(s) == [i \in 1..Len(s) |-> s[Len(s) + 1 - i]]

ActiveAt(levels, keys, t) ==
    Flatten([i \in 1..Len(keys) |->
                SelectSeq(levels[keys[i]], LAMBDA o : IsActive(o, t))])

GetBuyOrders(book, t) ==
    ActiveAt(book.buy_orders, Reverse(Ascending(DOMAIN book.buy_orders)), t)

GetSellOrders(book, t) ==
    ActiveAt(book.sell_orders, Ascending(DOMAIN book.sell_orders), t)

\* The first key of the buy levels instead of the last.
GetBestBidFirstKey(book) ==
    IF DOMAIN book.buy_orders = {} THEN None ELSE Some(SetMin(DOMAIN book.buy_orders))

GetBestBid(book) ==
    IF DOMAIN book.buy_orders = {} THEN None ELSE Some(SetMax(DOMAIN book.buy_orders))

GetBestAsk(book) ==
    IF DOMAIN book.sell_orders = {} THEN None ELSE Some(SetMin(DOMAIN book.sell_orders))

GetSpread(book) ==
    IF GetBestBid(book) # None /\ GetBestAsk(book) # None
    THEN Some(GetBestAsk(book)[1] - GetBestBid(book)[1])
    ELSE None

UpdateOrderStatus(book, order_id, new_status) ==
    IF order_id \in DOMAIN book.orders_by_id
    THEN [ok |-> TRUE, err |-> "",
          book |-> [book EXCEPT !.orders_by_id[order_id].status = new_status]]
    ELSE [ok |-> FALSE, err |-> "OrderNotFound", book |-> book]

ExpiredOrderIds(book, t) ==
    {id \in DOMAIN book.orders_by_id :
        book.orders_by_id[id].deadline <= t /\ IsActive(book.orders_by_id[id], t)}

RECURSIVE RemoveAll(_, _)
RemoveAll(book, ids) ==
    IF ids = <<>> THEN book
    ELSE RemoveAll(RemoveOrder(book, Head(ids)).book, Tail(ids))

\* expired_order_ids is filled in the HashMap's iteration order, ids.
CleanupExpiredOrders(book, ids) == [expired |-> ids, book |-> RemoveAll(book, ids)]

---------------------------------------------------------------------------
(* privacy.rs: the order cipher.  A ciphertext is a 12-byte nonce followed  *)
(* by the AES-GCM sealing of the serialized order data; it opens under the  *)
(* key that sealed it and under no other.                                   *)

NonceLen == 12

\* serde_json::to_vec of an EncryptedOrderData.
SerializeOrderData(order_data) ==
    [order_data EXCEPT !.amount = JsonF64(@), !.price = JsonF64(@)]

\* serde_json::from_slice into an EncryptedOrderData: None where it fails.
DeserializeOrderData(json) ==
    IF json.amount = None \/ json.price = None
    THEN None
    ELSE Some([json EXCEPT !.amount = @[1], !.price = @[1]])

EncryptOrder(key, nonce, order_data) ==
    [len |-> NonceLen + 1, nonce |-> nonce, key |-> key,
     data |-> Some(SerializeOrderData(order_data))]

\* Bytes that are no sealed order: too short when len < 12, else unauthentic.
Garbage(len) == [len |-> len, nonce |-> 0, key |-> "", data |-> None]

DecryptOrder(key, encrypted_data, order_id) ==
    IF encrypted_data.len < NonceLen
    THEN [ok |-> FALSE, err |-> "InvalidCiphertextLength", order |-> None]
    ELSE IF encrypted_data.key # key \/ encrypted_data.data = None
    THEN [ok |-> FALSE, err |-> "DecryptionFailure", order |-> None]
    ELSE IF DeserializeOrderData(encrypted_data.data[1]) = None
    THEN [ok |-> FALSE, err |-> "DeserializationFailure", order |-> None]
    ELSE LET order_data == DeserializeOrderData(encrypted_data.data[1])[1]
         IN [ok |-> TRUE, err |-> "",
             order |-> Some([id |-> order_id, trader |-> order_data.trader,
                             pool_key |-> order_data.pool_key,
                             order_type |-> order_data.order_type,
                             amount |-> order_data.amount, price |-> order_data.price,
                             deadline |-> order_data.deadline,
                             encrypted_data |-> encrypted_data])]

---------------------------------------------------------------------------
(* engine.rs: MatchingEngine *)

OrderLifetime == 3600

MaxRecentMatches == 100

\* The number of pending orders health_check warns above; the default is
\* 1000, validation asks for more than 0.
max_pending_orders == 1

\* The push that refuses an order when the pending set is full.
AddEncryptedOrderCapped(pending, order_id, encrypted_data, t) ==
    IF Len(pending) >= max_pending_orders THEN pending
    ELSE Append(pending, [id |-> order_id])

\* The mock that stands where the decryption should be.
AddEncryptedOrder(pending, order_id, encrypted_data, t) ==
    Append(pending,
           [id |-> order_id,
            trader |-> "trader_" \o SubSeq(order_id, 1, Min(8, Len(order_id))),
            pool_key |-> "ETH_USDC_3000",
            order_type |-> IF Len(order_id) % 2 = 0 THEN "Buy" ELSE "Buy",
            amount |-> Fx(1000 + Len(order_id) * 100),
            price |-> Fx(2000 + Len(order_id) * 10),
            deadline |-> t + OrderLifetime,
            encrypted_data |-> encrypted_data])

\* The Order built from a DecryptedOrder before it enters a pool's book.
ToOrder(d, t) ==
    [id |-> d.id, trader |-> d.trader, pool_key |-> d.pool_key,
     order_type |-> d.order_type, amount |-> d.amount, price |-> d.price,
     status |-> "Pending", timestamp |-> t, deadline |-> d.deadline]

\* health_check: counts both collections, logs a warning above the
\* configured number of pending orders, and returns Ok(()).
HealthCheck(pending, recent) ==
    [ok |-> TRUE,
     log |-> IF Len(pending) > max_pending_orders
             THEN "High number of pending orders" ELSE ""]

\* can_match without the check that the traders differ.
CanMatchSelfTrade(buy_order, sell_order, t) ==
    /\ buy_order.pool_key = sell_order.pool_key
    /\ buy_order.price >= sell_order.price
    /\ buy_order.status = "Pending"
    /\ sell_order.status = "Pending"
    /\ buy_order.deadline > t
    /\ sell_order.deadline > t

\* can_match without the price check.
CanMatchAnyPrice(buy_order, sell_order, t) ==
    /\ buy_order.pool_key = sell_order.pool_key
    /\ buy_order.status = "Pending"
    /\ sell_order.status = "Pending"
    /\ buy_order.trader # sell_order.trader
    /\ buy_order.deadline > t
    /\ sell_order.deadline > t

CanMatch(buy_order, sell_order, t) ==
    /\ buy_order.pool_key = sell_order.pool_key
    /\ buy_order.price >= sell_order.price
    /\ buy_order.status = "Pending"
    /\ sell_order.status = "Pending"
    /\ buy_order.trader # sell_order.trader
    /\ buy_order.deadline > t
    /\ sell_order.deadline > t

\* calculate_match_price under a maker-price rule: the buyer's limit.
CalculateMatchPriceOfBuyer(buy_order, sell_order) == buy_order.price

\* Both prices count halves and are even, so the division is exact.
CalculateMatchPrice(buy_order, sell_order) == (buy_order.price + sell_order.price) \div 2

CalculateMatchAmount(buy_order, sell_order) == Min(buy_order.amount, sell_order.amount)

\* match_id, a random UUID, is left out.
OrderMatch(buy_order, sell_order, t) ==
    [buy_order |-> buy_order, sell_order |-> sell_order,
     matched_price |-> CalculateMatchPrice(buy_order, sell_order),
     matched_amount |-> CalculateMatchAmount(buy_order, sell_order),
     timestamp |-> t, pool_key |-> buy_order.pool_key]

FindMatchesInPool(book, t) ==
    LET buy_orders == GetBuyOrders(book, t)
        sell_orders == GetSellOrders(book, t)
    IN IF buy_orders = <<>> \/ sell_orders = <<>> THEN <<>>
       ELSE Flatten([i \in 1..Len(buy_orders) |->
               Flatten([j \in 1..Len(sell_orders) |->
                   IF CanMatch(buy_orders[i], sell_orders[j], t)
                   THEN <<OrderMatch(buy_orders[i], sell_orders[j], t)>>
                   ELSE <<>>])])

\* The loop that fills a pool's transient book; add_order(..)? leaves it on
\* the first order the book refuses.
RECURSIVE FillBook(_, _, _)
FillBook(book, orders, t) ==
    IF orders = <<>> THEN [ok |-> TRUE, book |-> book]
    ELSE LET added == AddOrder(book, ToOrder(Head(orders), t), t)
         IN IF added.ok THEN FillBook(added.book, Tail(orders), t)
            ELSE [ok |-> FALSE, book |-> added.book]

PoolKeys(orders) == {orders[i].pool_key : i \in 1..Len(orders)}

PoolIndices(orders, pool_key) == {i \in 1..Len(orders) : orders[i].pool_key = pool_key}

PoolOrders(orders, pool_key) == SelectSeq(orders, LAMBDA d : d.pool_key = pool_key)

\* One turn of the loop over the pools.
PoolPass(orders, pool_key, t) ==
    IF Cardinality(PoolIndices(orders, pool_key)) < 2
    THEN [ok |-> TRUE, pool_key |-> pool_key, matches |-> <<>>]
    ELSE LET filled == FillBook(OrderBookNew(pool_key), PoolOrders(orders, pool_key), t)
         IN IF filled.ok
            THEN [ok |-> TRUE, pool_key |-> pool_key,
                  matches |-> FindMatchesInPool(filled.book, t)]
            ELSE [ok |-> FALSE, pool_key |-> pool_key, matches |-> <<>>]

\* The loop over the pools, in the HashMap's iteration order pools.
RECURSIVE PoolLoop(_, _, _)
PoolLoop(orders, pools, t) ==
    IF pools = <<>> THEN [ok |-> TRUE, passes |-> <<>>]
    ELSE LET pass == PoolPass(orders, Head(pools), t)
         IN IF ~pass.ok THEN [ok |-> FALSE, passes |-> <<>>]
            ELSE LET rest == PoolLoop(orders, Tail(pools), t)
                 IN IF rest.ok THEN [ok |-> TRUE, passes |-> <<pass>> \o rest.passes]
                    ELSE rest

FindMatches(orders, pools, t) ==
    IF Len(orders) < 2 THEN [ok |-> TRUE, matches |-> <<>>]
    ELSE LET looped == PoolLoop(orders, pools, t)
         IN [ok |-> looped.ok,
             matches |-> Flatten([k \in 1..Len(looped.passes) |-> looped.passes[k].matches])]

\* The indices pushed when only the buy side of a match is looked up.
ProcessedIndicesOfBuys(pending, pass) ==
    {idx \in PoolIndices(pending, pass.pool_key) :
        \E k \in 1..Len(pass.matches) :
            pass.matches[k].buy_order.id = pending[idx].id}

\* The indices pushed to processed_indices for one pool's matches.
ProcessedIndices(pending, pass) ==
    {idx \in PoolIndices(pending, pass.pool_key) :
        \E k \in 1..Len(pass.matches) :
            \/ pass.matches[k].buy_order.id = pending[idx].id
            \/ pass.matches[k].sell_order.id = pending[idx].id}

RemoveAt(s, idx) == SubSeq(s, 1, idx - 1) \o SubSeq(s, idx + 1, Len(s))

\* processed_indices sorted descending and deduplicated, then removed in turn.
RECURSIVE RemoveProcessed(_, _)
RemoveProcessed(pending, processed_indices) ==
    IF processed_indices = {} THEN pending
    ELSE RemoveProcessed(RemoveAt(pending, SetMax(processed_indices)),
                         processed_indices \ {SetMax(processed_indices)})

KeepLast(s, n) == IF Len(s) > n THEN SubSeq(s, Len(s) - n + 1, Len(s)) ELSE s

\* The history that only ever grows.
StoreRecentUnbounded(recent, all_matches) == recent \o all_matches

StoreRecent(recent, all_matches) ==
    IF all_matches # <<>> THEN KeepLast(recent \o all_matches, MaxRecentMatches)
    ELSE recent

ProcessPendingOrders(pending, recent, pools, t) ==
    IF pending = <<>>
    THEN [ok |-> TRUE, matches |-> <<>>, pending |-> pending, recent |-> recent]
    ELSE LET looped == PoolLoop(pending, pools, t)
             all_matches ==
                 Flatten([k \in 1..Len(looped.passes) |-> looped.passes[k].matches])
             processed_indices ==
                 UNION {ProcessedIndices(pending, looped.passes[k]) :
                            k \in 1..Len(looped.passes)}
         IN IF looped.ok
            THEN [ok |-> TRUE, matches |-> all_matches,
                  pending |-> RemoveProcessed(pending, processed_indices),
                  recent |-> StoreRecent(recent, all_matches)]
            ELSE [ok |-> FALSE, matches |-> <<>>, pending |-> pending, recent |-> recent]

---------------------------------------------------------------------------
(* gossip.rs: GossipProtocol.  A GossipMessage keeps its id, its sender_id,  *)
(* its ttl and its signature; the mock verification looks at the length of  *)
(* the signature only, so a signature is its length in bytes.               *)

GossipTtl == 5

SignatureLen == 32

CleanupInterval == 300

CacheMaxAge == 3600

GossipMessage(message_id, sender_id, ttl, signature) ==
    [message_id |-> message_id, sender_id |-> sender_id, ttl |-> ttl,
     signature |-> signature]

GossipProtocolNew(local_peer_id, t) ==
    [local_peer_id |-> local_peer_id, peers |-> {}, message_cache |-> EmptyMap,
     last_cleanup |-> t]

AddPeer(g, peer_id) == [g EXCEPT !.peers = @ \cup {peer_id}]

RemovePeer(g, peer_id) ==
    [g EXCEPT !.peers = @ \ {peer_id},
              !.message_cache =
                  [id \in DOMAIN @ |->
                      [@[id] EXCEPT !.peers_sent_to =
                          SelectSeq(@, LAMBDA p : p # peer_id)]]]

CreateGossipMessage(g, message_id) ==
    GossipMessage(message_id, g.local_peer_id, GossipTtl, SignatureLen)

CleanupMessageCache(g, t) ==
    [g EXCEPT !.message_cache =
        [id \in {k \in DOMAIN @ : ~(t - @[k].first_seen > CacheMaxAge)} |-> @[id]]]

AddToCache(g, message, t) ==
    LET message_state == [message |-> message, first_seen |-> t,
                          propagation_count |-> 0, peers_sent_to |-> <<>>]
        inserted == [g EXCEPT !.message_cache = MapPut(@, message.message_id, message_state)]
    IN IF t - g.last_cleanup > CleanupInterval
       THEN [CleanupMessageCache(inserted, t) EXCEPT !.last_cleanup = t]
       ELSE inserted

\* The least k with k * k >= n: (n as f64).sqrt().ceil().
CeilSqrt(n) == CHOOSE k \in 0..n : k * k >= n /\ \A j \in 0..(k - 1) : j * j < n

Max(a, b) == IF a >= b THEN a ELSE b

\* A node that floods: every peer is a target.
TargetCountAllPeers(peers) == Cardinality(peers)

TargetCount(peers) == Min(Max(CeilSqrt(Cardinality(peers)), 1), Cardinality(peers))

AvailablePeers(peers, message) == {peer_id \in peers : peer_id # message.sender_id}

\* choose_multiple: amount distinct elements, or all of them when there are fewer.
ChooseMultiple(S, amount) ==
    UNION {Orderings(T) : T \in {U \in SUBSET S : Cardinality(U) = Min(amount, Cardinality(S))}}

\* Every target list select_gossip_targets can return for the message.
SelectGossipTargets(g, message) ==
    IF AvailablePeers(g.peers, message) = {} THEN {<<>>}
    ELSE ChooseMultiple(AvailablePeers(g.peers, message), TargetCount(g.peers))

\* The cache side of send_gossip_message.
SendGossipMessage(g, peer_id, message) ==
    IF message.message_id \in DOMAIN g.message_cache
    THEN [g EXCEPT !.message_cache[message.message_id] =
              [@ EXCEPT !.peers_sent_to = Append(@, peer_id),
                        !.propagation_count = @ + 1]]
    ELSE g

RECURSIVE SendAll(_, _, _)
SendAll(g, target_peers, message) ==
    IF target_peers = <<>> THEN g
    ELSE SendAll(SendGossipMessage(g, Head(target_peers), message), Tail(target_peers), message)

\* The copies a call hands to the transport: one per target.
Outgoing(target_peers, message) ==
    [k \in 1..Len(target_peers) |-> [peer_id |-> target_peers[k], message |-> message]]

\* propagate_message, with the target list the random choice came up with.
PropagateMessage(g, message_id, target_peers, t) ==
    LET gossip_message == CreateGossipMessage(g, message_id)
    IN [g |-> SendAll(AddToCache(g, gossip_message, t), target_peers, gossip_message),
        out |-> Outgoing(target_peers, gossip_message)]

\* The verification that lets every signature pass.
VerifyAnyMessageSignature(message) == TRUE

VerifyMessageSignature(message) ==
    IF message.signature = 0 THEN FALSE ELSE message.signature = SignatureLen

\* The relay that forwards the copy with the ttl it was received with.
PropagatedMessageSameTtl(message) == message

PropagatedMessage(message) == [message EXCEPT !.ttl = @ - 1]

\* The targets of a relay that pass the "don't send back to the sender" test.
RelayTargets(target_peers, message) ==
    SelectSeq(target_peers, LAMBDA peer_id : peer_id # message.sender_id)

\* A node that takes no message for one it has seen.
AlreadySeenNever(g, message) == FALSE

\* "Check if we've already seen this message".
AlreadySeen(g, message) == message.message_id \in DOMAIN g.message_cache

\* handle_incoming_message, with the target list the random choice came up
\* with for the propagated message.
HandleIncomingMessage(g, message, target_peers, t) ==
    IF AlreadySeen(g, message)
    THEN [result |-> FALSE, g |-> g, out |-> <<>>]
    ELSE IF ~VerifyMessageSignature(message)
    THEN [result |-> FALSE, g |-> g, out |-> <<>>]
    ELSE IF message.ttl = 0
    THEN [result |-> FALSE, g |-> g, out |-> <<>>]
    ELSE IF message.ttl > 1
    THEN [result |-> TRUE,
          g |-> SendAll(AddToCache(g, message, t),
                        RelayTargets(target_peers, message), PropagatedMessage(message)),
          out |-> Outgoing(RelayTargets(target_peers, message), PropagatedMessage(message))]
    ELSE [result |-> TRUE, g |-> AddToCache(g, message, t), out |-> <<>>]

---------------------------------------------------------------------------
(* encryption.rs: NetworkEncryption.  A key is the number of the key         *)
(* generation that produced it: generate_key never returns a key it         *)
(* returned before.  An AES-GCM ciphertext opens under the key and the      *)
(* nonce that sealed it and under no other; a signature is its length in    *)
(* bytes, which is all the mock verification looks at.                      *)

FirstKey == 1

MessageMaxAge == 3600

Seal(key, nonce, plaintext) == [key |-> key, nonce |-> nonce, plaintext |-> plaintext]

\* Bytes that no key sealed.
Forged == [key |-> 0, nonce |-> 0, plaintext |-> <<>>]

OpenUnderAnyKey(key, nonce, ciphertext) ==
    IF ciphertext.nonce = nonce THEN Some(ciphertext.plaintext) ELSE None

Open(key, nonce, ciphertext) ==
    IF ciphertext.key = key /\ ciphertext.nonce = nonce
    THEN Some(ciphertext.plaintext)
    ELSE None

\* The nonce field of a message: its bytes and how many they are.
NonceBytes(nonce) == [len |-> NonceLen, value |-> nonce]

\* serde_json::to_vec of a P2PMessage.
SerializeP2PMessage(message) ==
    [message EXCEPT !.peers = [i \in DOMAIN @ |-> [@[i] EXCEPT !.reputation = JsonF64(@)]]]

\* serde_json::from_slice into a P2PMessage: None where it fails.
DeserializeP2PMessage(json) ==
    IF \E i \in DOMAIN json.peers : json.peers[i].reputation = None
    THEN None
    ELSE Some([json EXCEPT !.peers = [i \in DOMAIN @ |-> [@[i] EXCEPT !.reputation = @[1]]]])

NetworkEncryptionNew(local_key) == [local_key |-> local_key, peer_keys |-> EmptyMap]

AddPeerKey(enc, peer_id, public_key) ==
    [enc EXCEPT !.peer_keys = MapPut(@, peer_id, public_key)]

RemovePeerKey(enc, peer_id) == [enc EXCEPT !.peer_keys = MapDel(@, peer_id)]

\* The mock signature: the 32 bytes of a SHA-256 digest.
SignData(data) == SignatureLen

VerifySignatureAlways(data, signature) == TRUE

VerifySignature(data, signature) ==
    IF signature = 0 THEN FALSE
    ELSE IF signature # SignatureLen THEN FALSE
    ELSE TRUE

EncryptMessage(enc, message, nonce, t) ==
    [ok |-> TRUE, err |-> "",
     value |-> Some([sender_id |-> "local_peer", recipient_id |-> None,
                     encrypted_data |-> Seal(enc.local_key, nonce, SerializeP2PMessage(message)),
                     nonce |-> NonceBytes(nonce),
                     signature |-> SignData(Seal(enc.local_key, nonce, SerializeP2PMessage(message))),
                     timestamp |-> t])]

\* decrypt_message with the age test one second early.
DecryptMessageWithinTheHour(enc, secure_message, t) ==
    IF ~VerifySignature(secure_message.encrypted_data, secure_message.signature)
    THEN [ok |-> FALSE, err |-> "Message signature verification failed", value |-> None]
    ELSE IF t >= secure_message.timestamp + MessageMaxAge
    THEN [ok |-> FALSE, err |-> "Message too old", value |-> None]
    ELSE [ok |-> TRUE, err |-> "", value |-> None]

\* Nonce::from_slice panics on a slice that is not 12 bytes long.
DecryptMessage(enc, secure_message, t) ==
    IF ~VerifySignature(secure_message.encrypted_data, secure_message.signature)
    THEN [ok |-> FALSE, err |-> "Message signature verification failed", value |-> None]
    ELSE IF t > secure_message.timestamp + MessageMaxAge
    THEN [ok |-> FALSE, err |-> "Message too old", value |-> None]
    ELSE IF secure_message.nonce.len # NonceLen
    THEN [ok |-> FALSE, err |-> "panic", value |-> None]
    ELSE LET plaintext == Open(enc.local_key, secure_message.nonce.value,
                               secure_message.encrypted_data)
         IN IF plaintext = None
            THEN [ok |-> FALSE, err |-> "Message decryption failed", value |-> None]
            ELSE IF DeserializeP2PMessage(plaintext[1]) = None
            THEN [ok |-> FALSE, err |-> "deserialization failed", value |-> None]
            ELSE [ok |-> TRUE, err |-> "", value |-> DeserializeP2PMessage(plaintext[1])]

EncryptMessageForAnyPeer(enc, message, peer_id, nonce, t) ==
    [ok |-> TRUE, err |-> "",
     value |-> Some([EncryptMessage(enc, message, nonce, t).value[1]
                        EXCEPT !.recipient_id = Some(peer_id)])]

EncryptMessageForPeer(enc, message, peer_id, nonce, t) ==
    IF peer_id \notin DOMAIN enc.peer_keys
    THEN [ok |-> FALSE, err |-> "Peer key not found", value |-> None]
    ELSE [ok |-> TRUE, err |-> "",
          value |-> Some([EncryptMessage(enc, message, nonce, t).value[1]
                             EXCEPT !.recipient_id = Some(peer_id)])]

CreateBroadcastMessage(enc, message, nonce, t) == EncryptMessage(enc, message, nonce, t)

RotateKeys(enc, new_key) == [enc EXCEPT !.local_key = new_key]

\* The derived secret is stored as the peer's key.
CreateSecureChannel(enc, peer_id, peer_public_key) ==
    AddPeerKey(enc, peer_id, peer_public_key)

CloseSecureChannel(enc, peer_id) == RemovePeerKey(enc, peer_id)

EncryptBulkData(enc, data, nonce) ==
    [ok |-> TRUE, err |-> "",
     value |-> Some([encrypted_data |-> Seal(enc.local_key, nonce, data),
                     nonce |-> NonceBytes(nonce)])]

DecryptBulkData(enc, encrypted_data, nonce) ==
    IF nonce.len # NonceLen
    THEN [ok |-> FALSE, err |-> "panic", value |-> None]
    ELSE IF Open(enc.local_key, nonce.value, encrypted_data) = None
    THEN [ok |-> FALSE, err |-> "Bulk data decryption failed", value |-> None]
    ELSE [ok |-> TRUE, err |-> "", value |-> Open(enc.local_key, nonce.value, encrypted_data)]

---------------------------------------------------------------------------
(* Inputs *)

OrderTypes == {"Buy", "Sell"}

Statuses == {"Pending", "PartiallyFilled", "Filled", "Cancelled", "Expired"}

\* The statuses update_order_status is called with.
StatusUpdates == {"Pending", "PartiallyFilled", "Cancelled"}

Pools == {"ETH_USDC_3000", "WBTC_USDC_500"}

Traders == {"trader_1", "trader_2"}

Prices == {Fx(1999), Fx(2001)}

Amounts == {Fx(100), Fx(250)}

Deadlines == {3600, 3601}

\* Orders offered to the stand-alone book.
BookIds == {"buy_1", "sell_1"}

\* Orders of one find_matches call: the k-th has the k-th id.  Traders and
\* pools are interchangeable, so the first order's are fixed; from the third
\* order on, only what decides the pairing varies.
BatchId(k) == <<"order_1", "order_2", "order_3">>[k]

BatchOrders(k) ==
    {[id |-> BatchId(k), trader |-> tr, pool_key |-> pk, order_type |-> ot,
      amount |-> am, price |-> pr, deadline |-> dl, encrypted_data |-> <<>>] :
        tr \in IF k = 1 THEN {"trader_1"} ELSE Traders,
        pk \in IF k = 1 THEN {"ETH_USDC_3000"} ELSE Pools,
        ot \in OrderTypes,
        am \in IF k > 2 THEN {Fx(100)} ELSE Amounts,
        pr \in Prices,
        dl \in IF k > 2 THEN {3601} ELSE Deadlines}

RECURSIVE Batches(_)
Batches(n) ==
    IF n = 0 THEN {<<>>}
    ELSE {Append(b, o) : b \in Batches(n - 1), o \in BatchOrders(n)}

\* Orders of a pending set handed to a tick: an id names one trader's order
\* in one pool, and may be pending more than once.
TickIds == {"a1", "a2", "b1", "b2"}

TickPool(id) == IF id \in {"a1", "a2"} THEN "ETH_USDC_3000" ELSE "WBTC_USDC_500"

TickTrader(id) == IF id \in {"a1", "b1"} THEN "trader_1" ELSE "trader_2"

TickOrders ==
    {[id |-> id, trader |-> TickTrader(id), pool_key |-> TickPool(id), order_type |-> ot,
      amount |-> Fx(100), price |-> Fx(2000), deadline |-> 3600,
      encrypted_data |-> <<>>] : id \in TickIds, ot \in OrderTypes}

\* What arrives at add_encrypted_order: ids, and either the four bytes of
\* test_add_encrypted_order or an order sealed under the operator's key.
EngineIds == {"o", "id"}

OperatorKey == "operator_key"

SealedData ==
    [trader |-> "trader_9", pool_key |-> "WBTC_USDC_500", order_type |-> "Sell",
     amount |-> Fx(100), price |-> Fx(1999), deadline |-> 3601]

Ciphertexts == {Garbage(4), EncryptOrder(OperatorKey, 1, SealedData)}

---------------------------------------------------------------------------
(* State *)

NoResult == [called |-> FALSE, ok |-> TRUE, matches |-> <<>>]

NotHandled == [called |-> FALSE]

NotSelected == [called |-> FALSE]

NotCalled == [op |-> "", ok |-> TRUE, err |-> "", value |-> None]

\* A fresh stand-alone order book.
IdleBook == order_book = OrderBookNew("ETH_USDC_3000") /\ ret = ""

\* No find_matches call yet.
IdleMatch == fm_orders = <<>> /\ fm_result = NoResult

\* A fresh matching engine.
IdleEngine == pending_orders = <<>> /\ recent_matches = <<>> /\ tick_result = NoResult

\* No gossip node.
IdleGossip ==
    /\ gossip = EmptyMap
    /\ net = {}
    /\ issued = {}
    /\ send_count = EmptyMap
    /\ handled = NotHandled
    /\ processed = {}
    /\ sel = NotSelected

\* No encryption layer in use.
IdleCrypto ==
    /\ encryption = NetworkEncryptionNew(FirstKey)
    /\ envelope = None
    /\ nonces_used = {}
    /\ crypto_ret = NotCalled

\* The matching task between two ticks, no order arriving.
IdleLock == tick_pc = "idle" /\ add_call = None

\* No task runs an operation.
IdleScript == lock_run = EmptyMap

\* A coordinator without peers.
IdleP2P == p2p_peers = EmptyMap

\* Nothing asked yet.
IdleQuery == health = NotCalled /\ query = NotCalled

InitCommon ==
    /\ now = 0
    /\ IdleBook
    /\ IdleMatch
    /\ IdleEngine
    /\ IdleGossip
    /\ IdleCrypto
    /\ IdleLock
    /\ IdleScript
    /\ IdleP2P
    /\ IdleQuery

bookVars == <<order_book, ret>>

matchVars == <<fm_orders, fm_result>>

engineVars == <<pending_orders, recent_matches, tick_result>>

gossipVars == <<gossip, net, issued, send_count, handled, processed, sel>>

cryptoVars == <<encryption, envelope, nonces_used, crypto_ret>>

lockVars == <<tick_pc, add_call>>

scriptVars == <<lock_run>>

p2pVars == <<p2p_peers>>

queryVars == <<health, query>>

\* The clock moves on.
AdvanceClock ==
    /\ \E t \in Instants : t > now /\ now' = t
    /\ UNCHANGED <<bookVars, matchVars, engineVars, gossipVars, cryptoVars, lockVars, scriptVars, p2pVars, queryVars>>

---------------------------------------------------------------------------
(* The stand-alone order book under its callers *)

EntryCount(book) ==
    LET n(levels) == Len(Flatten([i \in 1..Cardinality(DOMAIN levels) |->
                                     levels[Ascending(DOMAIN levels)[i]]]))
    IN n(book.buy_orders) + n(book.sell_orders)

BookSide(id) == IF id = "buy_1" THEN "Buy" ELSE "Sell"

BookOrder(id, pr, dl) ==
    OrderNew(id, "trader_1", "ETH_USDC_3000", BookSide(id), Fx(100), pr, dl, now)

AddOrderCall(id, pr, dl) ==
    /\ EntryCount(order_book) < MaxOrders
    /\ order_book.total_orders < MaxCount
    /\ order_book' = AddOrder(order_book, BookOrder(id, pr, dl), now).book
    /\ ret' = IF AddOrder(order_book, BookOrder(id, pr, dl), now).ok
              THEN "Ok" ELSE AddOrder(order_book, BookOrder(id, pr, dl), now).err
    /\ UNCHANGED <<now, matchVars, engineVars, gossipVars, cryptoVars, lockVars, scriptVars, p2pVars, queryVars>>

RemoveOrderCall(id) ==
    /\ order_book' = RemoveOrder(order_book, id).book
    /\ ret' = "Ok"
    /\ UNCHANGED <<now, matchVars, engineVars, gossipVars, cryptoVars, lockVars, scriptVars, p2pVars, queryVars>>

UpdateOrderStatusCall(id, st) ==
    /\ order_book' = UpdateOrderStatus(order_book, id, st).book
    /\ ret' = IF UpdateOrderStatus(order_book, id, st).ok
              THEN "Ok" ELSE UpdateOrderStatus(order_book, id, st).err
    /\ UNCHANGED <<now, matchVars, engineVars, gossipVars, cryptoVars, lockVars, scriptVars, p2pVars, queryVars>>

CleanupExpiredOrdersCall ==
    /\ \E ids \in Orderings(ExpiredOrderIds(order_book, now)) :
           order_book' = CleanupExpiredOrders(order_book, ids).book
    /\ ret' = "Ok"
    /\ UNCHANGED <<now, matchVars, engineVars, gossipVars, cryptoVars, lockVars, scriptVars, p2pVars, queryVars>>

NextBook ==
    \/ \E id \in BookIds, pr \in Prices, dl \in Deadlines : AddOrderCall(id, pr, dl)
    \/ \E id \in BookIds : RemoveOrderCall(id)
    \/ \E id \in BookIds, st \in StatusUpdates : UpdateOrderStatusCall(id, st)
    \/ CleanupExpiredOrdersCall
    \/ AdvanceClock

SpecBook == InitCommon /\ [][NextBook]_vars

---------------------------------------------------------------------------
(* find_matches under its caller *)

FindMatchesCall ==
    /\ ~fm_result.called
    /\ \E pools \in Orderings(PoolKeys(fm_orders)) :
           LET r == FindMatches(fm_orders, pools, now)
           IN fm_result' = [called |-> TRUE, ok |-> r.ok, matches |-> r.matches]
    /\ UNCHANGED <<now, fm_orders, bookVars, engineVars, gossipVars, cryptoVars, lockVars, scriptVars, p2pVars, queryVars>>

ClockBeforeCall == ~fm_result.called /\ AdvanceClock

InitMatch ==
    /\ now = 0
    /\ IdleBook
    /\ IdleCrypto
    /\ IdleLock
    /\ IdleScript
    /\ IdleP2P
    /\ IdleQuery
    /\ fm_orders \in UNION {Batches(n) : n \in 0..MaxBatch}
    /\ fm_result = NoResult
    /\ IdleEngine
    /\ IdleGossip

NextMatch ==
    \/ FindMatchesCall
    \/ ClockBeforeCall

SpecMatch == InitMatch /\ [][NextMatch]_vars

---------------------------------------------------------------------------
(* The engine: orders arrive, the tick runs *)

AddEncryptedOrderCall(order_id, encrypted_data) ==
    /\ Len(pending_orders) < MaxPending
    /\ pending_orders' = AddEncryptedOrder(pending_orders, order_id, encrypted_data, now)
    /\ UNCHANGED <<now, bookVars, matchVars, recent_matches, tick_result, gossipVars, cryptoVars, lockVars, scriptVars, p2pVars, queryVars>>

ProcessPendingOrdersCall ==
    \E pools \in Orderings(PoolKeys(pending_orders)) :
        LET r == ProcessPendingOrders(pending_orders, recent_matches, pools, now)
        IN /\ pending_orders' = r.pending
           /\ recent_matches' = r.recent
           /\ tick_result' = [called |-> TRUE, ok |-> r.ok, matches |-> r.matches]
           /\ UNCHANGED <<now, bookVars, matchVars, gossipVars, cryptoVars, lockVars, scriptVars, p2pVars, queryVars>>

Init == InitCommon

Next ==
    \/ \E order_id \in EngineIds, encrypted_data \in Ciphertexts :
           AddEncryptedOrderCall(order_id, encrypted_data)
    \/ ProcessPendingOrdersCall
    \/ AdvanceClock

Spec == Init /\ [][Next]_vars

\* A tick in the current state would change the state.
TickEnabled ==
    \E pools \in Orderings(PoolKeys(pending_orders)) :
        LET r == ProcessPendingOrders(pending_orders, recent_matches, pools, now)
        IN <<r.pending, r.recent, [called |-> TRUE, ok |-> r.ok, matches |-> r.matches]>>
               # <<pending_orders, recent_matches, tick_result>>

\* run_matching_engine calls the tick in a loop, every 100 ms, for ever: the
\* tick is weakly fair.  WF_vars(ProcessPendingOrdersCall) is written out as
\* []<>~ENABLED <<A>>_vars \/ []<><<A>>_vars, with TickEnabled for the ENABLED.
TickFair ==
    \/ []<>(~TickEnabled)
    \/ []<><<ProcessPendingOrdersCall>>_vars

FairSpec == Spec /\ TickFair /\ WF_vars(AdvanceClock)

---------------------------------------------------------------------------
(* One tick over a given pending set *)

TickInputs == UNION {[1..n -> TickOrders] : n \in 0..MaxTick}

InitTick ==
    /\ now = 0
    /\ IdleBook
    /\ IdleCrypto
    /\ IdleLock
    /\ IdleScript
    /\ IdleP2P
    /\ IdleQuery
    /\ IdleMatch
    /\ pending_orders \in TickInputs
    /\ recent_matches = <<>>
    /\ tick_result = NoResult
    /\ IdleGossip

NextTick ==
    \/ ProcessPendingOrdersCall
    \/ AdvanceClock

SpecTick == InitTick /\ [][NextTick]_vars

---------------------------------------------------------------------------
(* The gossip network: every node runs a GossipProtocol; what               *)
(* send_gossip_message hands to the transport reaches the peer it names,    *)
(* in any order.                                                            *)

NodeNames == <<"a", "b", "c", "d", "e", "f", "g", "h">>

Nodes == {NodeNames[i] : i \in 1..NumNodes}

\* gossip.rs:57, the id a node signs its gossip messages with.
LocalPeerId(n) == "gossip_peer_" \o n

\* p2p.rs:100, the id a node announces in its handshake.
HandshakePeerId(n) == "peer_" \o n

NodeOf(peer_id) == CHOOSE n \in Nodes : peer_id \in {LocalPeerId(n), HandshakePeerId(n)}

Neighbours(i) == {j \in 1..NumNodes : j = i - 1 \/ j = i + 1}

\* The nodes after add_peer of their neighbours, known by the ids PeerKey gives.
LineNetwork(PeerKey(_)) ==
    [n \in Nodes |->
        LET i == CHOOSE k \in 1..NumNodes : NodeNames[k] = n
        IN [GossipProtocolNew(LocalPeerId(n), 0) EXCEPT
               !.peers = {PeerKey(NodeNames[j]) : j \in Neighbours(i)}]]

PropagateIds == {"m1"}

\* The node a peer outside the network is connected to.
Gateway == NodeNames[1]

\* What a peer that is not one of the nodes may send: a message out of hops.
ForeignMessages == {GossipMessage("x0", "peer_x", 0, SignatureLen)}

Transport(from, hop, out) ==
    {[to |-> NodeOf(out[k].peer_id), from |-> from, hop |-> hop, message |-> out[k].message] :
        k \in 1..Len(out)}

Counted(counts, message_id, n) ==
    IF n = 0 THEN counts
    ELSE MapPut(counts, message_id,
                (IF message_id \in DOMAIN counts THEN counts[message_id] ELSE 0) + n)

PropagateMessageCall(n, message_id) ==
    /\ message_id \notin issued
    /\ \E target_peers \in
           SelectGossipTargets(gossip[n], CreateGossipMessage(gossip[n], message_id)) :
           LET r == PropagateMessage(gossip[n], message_id, target_peers, now)
           IN /\ gossip' = [gossip EXCEPT ![n] = r.g]
              /\ net' = net \cup Transport(n, 1, r.out)
              /\ send_count' = Counted(send_count, message_id, Len(r.out))
    /\ issued' = issued \cup {message_id}
    /\ UNCHANGED <<now, bookVars, matchVars, engineVars, cryptoVars, lockVars, scriptVars, p2pVars, queryVars, handled, processed, sel>>

ForeignSend(message) ==
    /\ \A copy \in net : copy.from # "foreign"
    /\ net' = net \cup {[to |-> Gateway, from |-> "foreign", hop |-> 1, message |-> message]}
    /\ UNCHANGED <<now, bookVars, matchVars, engineVars, cryptoVars, lockVars, scriptVars, p2pVars, queryVars,
                   gossip, issued, send_count, handled, processed, sel>>

\* The target lists the random choice can come up with in a call of
\* handle_incoming_message: none is drawn unless the message is relayed.
RelayChoice(g, message) ==
    IF /\ ~AlreadySeen(g, message)
       /\ VerifyMessageSignature(message)
       /\ message.ttl > 1
    THEN SelectGossipTargets(g, PropagatedMessage(message))
    ELSE {<<>>}

\* A copy reaches its node, which runs handle_incoming_message on it.
DeliverCopy(copy) ==
    /\ copy \in net
    /\ \E target_peers \in RelayChoice(gossip[copy.to], copy.message) :
           LET r == HandleIncomingMessage(gossip[copy.to], copy.message, target_peers, now)
           IN /\ gossip' = [gossip EXCEPT ![copy.to] = r.g]
              /\ net' = (net \ {copy}) \cup Transport(copy.to, copy.hop + 1, r.out)
              /\ send_count' = Counted(send_count, copy.message.message_id, Len(r.out))
              /\ handled' = [called |-> TRUE, node |-> copy.to, message |-> copy.message,
                             result |-> r.result, out |-> r.out]
              /\ processed' = IF r.result
                              THEN processed \cup {<<copy.to, copy.message.message_id>>}
                              ELSE processed
    /\ UNCHANGED <<now, bookVars, matchVars, engineVars, cryptoVars, lockVars, scriptVars, p2pVars, queryVars, issued, sel>>

InitGossip ==
    /\ now = 0
    /\ IdleBook
    /\ IdleCrypto
    /\ IdleLock
    /\ IdleScript
    /\ IdleP2P
    /\ IdleQuery
    /\ IdleMatch
    /\ IdleEngine
    /\ gossip \in {LineNetwork(HandshakePeerId), LineNetwork(LocalPeerId)}
    /\ net = {}
    /\ issued = {}
    /\ send_count = EmptyMap
    /\ handled = NotHandled
    /\ processed = {}
    /\ sel = NotSelected

NextGossip ==
    \/ \E n \in Nodes, message_id \in PropagateIds : PropagateMessageCall(n, message_id)
    \/ \E message \in ForeignMessages : ForeignSend(message)
    \/ \E copy \in net : DeliverCopy(copy)

SpecGossip == InitGossip /\ [][NextGossip]_vars

---------------------------------------------------------------------------
(* One gossip node under its callers: peers come and go, messages of any    *)
(* kind are delivered, time passes.                                         *)

Local == NodeNames[1]

NodePeers == {HandshakePeerId(NodeNames[2]), HandshakePeerId(NodeNames[3])}

NodeMessageIds == {"m1", "m2"}

NodeTtls == {0, 1, 3}

NodeSignatures == {SignatureLen, 4}

NodeMessages ==
    {GossipMessage(message_id, HandshakePeerId(NodeNames[2]), ttl, signature) :
        message_id \in NodeMessageIds, ttl \in NodeTtls, signature \in NodeSignatures}

AddPeerCall(peer_id) ==
    /\ gossip' = [gossip EXCEPT ![Local] = AddPeer(@, peer_id)]
    /\ UNCHANGED <<now, bookVars, matchVars, engineVars, cryptoVars, lockVars, scriptVars, p2pVars, queryVars,
                   net, issued, send_count, handled, processed, sel>>

RemovePeerCall(peer_id) ==
    /\ gossip' = [gossip EXCEPT ![Local] = RemovePeer(@, peer_id)]
    /\ UNCHANGED <<now, bookVars, matchVars, engineVars, cryptoVars, lockVars, scriptVars, p2pVars, queryVars,
                   net, issued, send_count, handled, processed, sel>>

HandleIncomingMessageCall(message) ==
    /\ \E target_peers \in RelayChoice(gossip[Local], message) :
           LET r == HandleIncomingMessage(gossip[Local], message, target_peers, now)
           IN /\ gossip' = [gossip EXCEPT ![Local] = r.g]
              /\ send_count' = Counted(send_count, message.message_id, Len(r.out))
              /\ handled' = [called |-> TRUE, node |-> Local, message |-> message,
                             result |-> r.result, out |-> r.out]
              /\ processed' = IF r.result
                              THEN processed \cup {<<Local, message.message_id>>}
                              ELSE processed
    /\ UNCHANGED <<now, bookVars, matchVars, engineVars, cryptoVars, lockVars, scriptVars, p2pVars, queryVars, net, issued, sel>>

InitNode ==
    /\ now = 0
    /\ IdleBook
    /\ IdleCrypto
    /\ IdleLock
    /\ IdleScript
    /\ IdleP2P
    /\ IdleQuery
    /\ IdleMatch
    /\ IdleEngine
    /\ gossip = [n \in {Local} |-> GossipProtocolNew(LocalPeerId(Local), 0)]
    /\ net = {}
    /\ issued = {}
    /\ send_count = EmptyMap
    /\ handled = NotHandled
    /\ processed = {}
    /\ sel = NotSelected

NextNode ==
    \/ \E peer_id \in NodePeers : AddPeerCall(peer_id)
    \/ \E peer_id \in NodePeers : RemovePeerCall(peer_id)
    \/ \E message \in NodeMessages : HandleIncomingMessageCall(message)
    \/ AdvanceClock

SpecNode == InitNode /\ [][NextNode]_vars

---------------------------------------------------------------------------
(* The choice of targets: one node with a peer set of any size originates   *)
(* or relays one message.                                                   *)

PeerName(i) == "peer_" \o ToString(i)

PeerSets ==
    {{PeerName(i) : i \in 1..k} \cup own :
        k \in 0..MaxPeers, own \in {{}, {LocalPeerId(Local)}}}

\* The messages to relay: from a peer of the node, and from one that is not.
RelayedMessages ==
    {GossipMessage("m1", sender_id, 3, SignatureLen) : sender_id \in {PeerName(1), "peer_x"}}

TargetsOf(out) == [k \in 1..Len(out) |-> out[k].peer_id]

PropagateTargetsCall ==
    /\ ~sel.called
    /\ \E target_peers \in
           SelectGossipTargets(sel.g, CreateGossipMessage(sel.g, "m1")) :
           sel' = [sel EXCEPT
                      !.called = TRUE,
                      !.message = CreateGossipMessage(sel.g, "m1"),
                      !.targets =
                          TargetsOf(PropagateMessage(sel.g, "m1", target_peers, now).out)]
    /\ UNCHANGED <<now, bookVars, matchVars, engineVars, cryptoVars, lockVars, scriptVars, p2pVars, queryVars,
                   gossip, net, issued, send_count, handled, processed>>

RelayTargetsCall(message) ==
    /\ ~sel.called
    /\ \E target_peers \in RelayChoice(sel.g, message) :
           sel' = [sel EXCEPT
                      !.called = TRUE,
                      !.message = PropagatedMessage(message),
                      !.targets =
                          TargetsOf(HandleIncomingMessage(sel.g, message, target_peers, now).out)]
    /\ UNCHANGED <<now, bookVars, matchVars, engineVars, cryptoVars, lockVars, scriptVars, p2pVars, queryVars,
                   gossip, net, issued, send_count, handled, processed>>

InitTargets ==
    /\ now = 0
    /\ IdleBook
    /\ IdleCrypto
    /\ IdleLock
    /\ IdleScript
    /\ IdleP2P
    /\ IdleQuery
    /\ IdleMatch
    /\ IdleEngine
    /\ gossip = EmptyMap
    /\ net = {}
    /\ issued = {}
    /\ send_count = EmptyMap
    /\ handled = NotHandled
    /\ processed = {}
    /\ \E peers \in PeerSets :
           sel = [called |-> FALSE,
                  g |-> [GossipProtocolNew(LocalPeerId(Local), 0) EXCEPT !.peers = peers],
                  message |-> None, targets |-> <<>>]

NextTargets ==
    \/ PropagateTargetsCall
    \/ \E message \in RelayedMessages : RelayTargetsCall(message)

SpecTargets == InitTargets /\ [][NextTargets]_vars

---------------------------------------------------------------------------
(* The encryption layer under its callers: peer keys come and go, the key   *)
(* is rotated, messages, bulk data and orders are sealed, and what was      *)
(* sealed last comes back, as it was or altered on the way, at any later    *)
(* time.                                                                    *)

Nonces == 1..NumNonces

CryptoPeers == {"peer_b", "peer_c"}

PeerPublicKey == 65

\* P2PMessage values, written with the fields of all their variants.
Ping == [variant |-> "Ping", timestamp |-> 0, peers |-> <<>>]

PeerListResponse(reputation) ==
    [variant |-> "PeerListResponse", timestamp |-> 0,
     peers |-> <<[peer_id |-> "peer_b", reputation |-> reputation]>>]

P2PMessages == {Ping, PeerListResponse(Fx(1)), PeerListResponse(NonFinite)}

\* A byte slice.
BulkData == {[bytes |-> <<1, 2, 3>>]}

OrderDatas == {SealedData, [SealedData EXCEPT !.price = NonFinite]}

\* What may happen to a SecureMessage between sender and receiver.
Alterations ==
    [signature : {SignatureLen, 0, 4}, forged : BOOLEAN, nonce_len : {NonceLen, 8}]

Unaltered == [signature |-> SignatureLen, forged |-> FALSE, nonce_len |-> NonceLen]

Altered(secure_message, how) ==
    [secure_message EXCEPT
        !.signature = how.signature,
        !.encrypted_data = IF how.forged THEN Forged ELSE @,
        !.nonce = [@ EXCEPT !.len = how.nonce_len]]

Outcome(op, r) == [op |-> op, ok |-> r.ok, err |-> r.err, value |-> r.value]

Done(op) == [op |-> op, ok |-> TRUE, err |-> "", value |-> None]

\* The key Aes256Gcm::generate_key returns next.
GenerateKey == encryption.local_key + 1

cryptoRest == <<now, bookVars, matchVars, engineVars, gossipVars, lockVars, scriptVars, p2pVars, queryVars>>

AddPeerKeyCall(peer_id) ==
    /\ encryption' = AddPeerKey(encryption, peer_id, PeerPublicKey)
    /\ UNCHANGED <<envelope, nonces_used, crypto_ret, cryptoRest>>

RemovePeerKeyCall(peer_id) ==
    /\ encryption' = RemovePeerKey(encryption, peer_id)
    /\ UNCHANGED <<envelope, nonces_used, crypto_ret, cryptoRest>>

CreateSecureChannelCall(peer_id) ==
    /\ encryption' = CreateSecureChannel(encryption, peer_id, PeerPublicKey)
    /\ crypto_ret' = Done("create_secure_channel")
    /\ UNCHANGED <<envelope, nonces_used, cryptoRest>>

CloseSecureChannelCall(peer_id) ==
    /\ encryption' = CloseSecureChannel(encryption, peer_id)
    /\ crypto_ret' = Done("close_secure_channel")
    /\ UNCHANGED <<envelope, nonces_used, cryptoRest>>

RotateKeysCall ==
    /\ encryption.local_key < FirstKey + MaxRotations
    /\ encryption' = RotateKeys(encryption, GenerateKey)
    /\ nonces_used' = {}
    /\ UNCHANGED <<envelope, crypto_ret, cryptoRest>>

\* A sealing under the local key went out: r is what the caller got.
Sealed(op, kind, plain, nonce, r) ==
    /\ envelope' = Some([kind |-> kind, item |-> r.value[1], plain |-> plain])
    /\ nonces_used' = nonces_used \cup {nonce}
    /\ crypto_ret' = Outcome(op, r)
    /\ UNCHANGED <<encryption, cryptoRest>>

EncryptMessageCall(message) ==
    \E nonce \in Nonces :
        Sealed("encrypt_message", "message", message, nonce,
               EncryptMessage(encryption, message, nonce, now))

CreateBroadcastMessageCall(message) ==
    \E nonce \in Nonces :
        Sealed("create_broadcast_message", "message", message, nonce,
               CreateBroadcastMessage(encryption, message, nonce, now))

EncryptMessageForPeerCall(message, peer_id) ==
    \E nonce \in Nonces :
        LET r == EncryptMessageForPeer(encryption, message, peer_id, nonce, now)
        IN IF r.ok
           THEN Sealed("encrypt_message_for_peer", "message", message, nonce, r)
           ELSE /\ crypto_ret' = Outcome("encrypt_message_for_peer", r)
                /\ UNCHANGED <<encryption, envelope, nonces_used, cryptoRest>>

EncryptBulkDataCall(data) ==
    \E nonce \in Nonces :
        Sealed("encrypt_bulk_data", "bulk", data, nonce,
               EncryptBulkData(encryption, data, nonce))

InHand(kind) == envelope # None /\ envelope[1].kind = kind

DecryptMessageCall(how) ==
    /\ InHand("message")
    /\ crypto_ret' = Outcome("decrypt_message",
                              DecryptMessage(encryption, Altered(envelope[1].item, how), now))
    /\ UNCHANGED <<encryption, envelope, nonces_used, cryptoRest>>

DecryptBulkDataCall ==
    /\ InHand("bulk")
    /\ crypto_ret' = Outcome("decrypt_bulk_data",
                              DecryptBulkData(encryption, envelope[1].item.encrypted_data,
                                              envelope[1].item.nonce))
    /\ UNCHANGED <<encryption, envelope, nonces_used, cryptoRest>>

\* The EncryptionManager of privacy.rs, under the operator's key.
EncryptOrderCall(order_data) ==
    \E nonce \in Nonces :
        /\ envelope' = Some([kind |-> "order",
                             item |-> EncryptOrder(OperatorKey, nonce, order_data),
                             plain |-> order_data])
        /\ crypto_ret' = Done("encrypt_order")
        /\ UNCHANGED <<encryption, nonces_used, cryptoRest>>

DecryptOrderCall(order_id) ==
    /\ InHand("order")
    /\ LET r == DecryptOrder(OperatorKey, envelope[1].item, order_id)
       IN crypto_ret' = [op |-> "decrypt_order", ok |-> r.ok, err |-> r.err,
                         value |-> r.order]
    /\ UNCHANGED <<encryption, envelope, nonces_used, cryptoRest>>

\* One peer's key is stored.
InitCrypto ==
    /\ now = 0
    /\ IdleBook
    /\ IdleMatch
    /\ IdleEngine
    /\ IdleGossip
    /\ IdleLock
    /\ IdleScript
    /\ IdleP2P
    /\ IdleQuery
    /\ encryption = AddPeerKey(NetworkEncryptionNew(FirstKey), "peer_b", PeerPublicKey)
    /\ envelope = None
    /\ nonces_used = {}
    /\ crypto_ret = NotCalled

NextCrypto ==
    \/ RotateKeysCall
    \/ \E message \in P2PMessages : EncryptMessageCall(message)
    \/ \E message \in P2PMessages, peer_id \in CryptoPeers :
           EncryptMessageForPeerCall(message, peer_id)
    \/ \E data \in BulkData : EncryptBulkDataCall(data)
    \/ \E how \in Alterations : DecryptMessageCall(how)
    \/ DecryptBulkDataCall
    \/ \E order_data \in OrderDatas : EncryptOrderCall(order_data)
    \/ \E order_id \in EngineIds : DecryptOrderCall(order_id)
    \/ AdvanceClock

SpecCrypto == InitCrypto /\ [][NextCrypto]_vars

---------------------------------------------------------------------------
(* The peer-key map under its callers: keys and channels come and go,      *)
(* messages are sealed for one peer or for all.                            *)

NextPeerKeys ==
    \/ \E peer_id \in CryptoPeers : AddPeerKeyCall(peer_id)
    \/ \E peer_id \in CryptoPeers : RemovePeerKeyCall(peer_id)
    \/ \E peer_id \in CryptoPeers : CreateSecureChannelCall(peer_id)
    \/ \E peer_id \in CryptoPeers : CloseSecureChannelCall(peer_id)
    \/ \E message \in P2PMessages : EncryptMessageCall(message)
    \/ \E message \in P2PMessages : CreateBroadcastMessageCall(message)
    \/ \E message \in P2PMessages, peer_id \in CryptoPeers :
           EncryptMessageForPeerCall(message, peer_id)

SpecPeerKeys == InitCommon /\ [][NextPeerKeys]_vars

---------------------------------------------------------------------------
(* The pending set's lock.  run_matching_engine and the event handlers run  *)
(* as separate tasks.  process_pending_orders takes the write lock of       *)
(* pending_orders on entry and holds it until it returns;                   *)
(* add_encrypted_order builds its order and then takes the same write lock  *)
(* for the push.  While the tick holds the lock the pending set cannot      *)
(* change, so the tick's work is one step at its end.                       *)

\* The write lock of pending_orders is held by the tick.
LockHeld == tick_pc = "running"

\* process_pending_orders is entered: with nothing pending it returns at
\* once, else it goes on under the lock.
TickBegin ==
    /\ tick_pc = "idle"
    /\ IF pending_orders = <<>>
       THEN /\ tick_result' = [called |-> TRUE, ok |-> TRUE, matches |-> <<>>]
            /\ UNCHANGED tick_pc
       ELSE /\ tick_pc' = "running"
            /\ UNCHANGED tick_result
    /\ UNCHANGED <<now, bookVars, matchVars, pending_orders, recent_matches,
                   gossipVars, cryptoVars, add_call,
                   scriptVars, p2pVars, queryVars>>

\* process_pending_orders returns and its guard is dropped.
TickEnd ==
    /\ tick_pc = "running"
    /\ \E pools \in Orderings(PoolKeys(pending_orders)) :
          LET r == ProcessPendingOrders(pending_orders, recent_matches, pools, now)
          IN /\ pending_orders' = r.pending
             /\ recent_matches' = r.recent
             /\ tick_result' = [called |-> TRUE, ok |-> r.ok, matches |-> r.matches]
    /\ tick_pc' = "idle"
    /\ UNCHANGED <<now, bookVars, matchVars, gossipVars, cryptoVars, add_call,
                   scriptVars, p2pVars, queryVars>>

\* add_encrypted_order is called and builds its order, up to the lock; the
\* call remembers whether a tick was in progress when it was made.
AddBegin(order_id, encrypted_data) ==
    /\ add_call = None
    /\ Len(pending_orders) < MaxPending
    /\ add_call' = Some([order_id |-> order_id, encrypted_data |-> encrypted_data,
                         t |-> now, during_tick |-> LockHeld])
    /\ UNCHANGED <<now, bookVars, matchVars, engineVars, gossipVars, cryptoVars, tick_pc,
                   scriptVars, p2pVars, queryVars>>

\* add_encrypted_order gets the lock, pushes and returns.
AddEnd ==
    /\ add_call # None
    /\ ~LockHeld
    /\ pending_orders' = AddEncryptedOrder(pending_orders, add_call[1].order_id,
                                           add_call[1].encrypted_data, add_call[1].t)
    /\ add_call' = None
    /\ UNCHANGED <<now, bookVars, matchVars, recent_matches, tick_result,
                   gossipVars, cryptoVars, tick_pc,
                   scriptVars, p2pVars, queryVars>>

NextLock ==
    \/ TickBegin
    \/ TickEnd
    \/ \E order_id \in EngineIds, encrypted_data \in Ciphertexts :
           AddBegin(order_id, encrypted_data)
    \/ AddEnd
    \/ AdvanceClock

SpecLock == InitCommon /\ [][NextLock]_vars

---------------------------------------------------------------------------
(* Claims: the matching pass *)

PairMatchable(b, s, t) ==
    /\ b.order_type = "Buy"
    /\ s.order_type = "Sell"
    /\ b.pool_key = s.pool_key
    /\ b.price >= s.price
    /\ b.trader # s.trader
    /\ b.deadline > t
    /\ s.deadline > t

MatchesOf(b, s) ==
    {k \in 1..Len(fm_result.matches) :
        /\ fm_result.matches[k].buy_order.id = b.id
        /\ fm_result.matches[k].sell_order.id = s.id}

\* C1: once the pools' books are built, the matching pass emits exactly one
\* match for every pair (buy, sell) of a pool with buy.price >= sell.price,
\* both Pending, different traders and both deadlines later than now, and no
\* match for any other pair: never two orders of one side, of one trader, of
\* two pools, or a buy priced below the sell.
C1_MatchIffMatchable ==
    (fm_result.called /\ fm_result.ok) =>
        /\ \A i, j \in 1..Len(fm_orders) :
              Cardinality(MatchesOf(fm_orders[i], fm_orders[j])) =
                  IF PairMatchable(fm_orders[i], fm_orders[j], now) THEN 1 ELSE 0
        /\ \A k \in 1..Len(fm_result.matches) :
              LET m == fm_result.matches[k]
              IN /\ m.buy_order.order_type = "Buy"
                 /\ m.sell_order.order_type = "Sell"
                 /\ m.buy_order.status = "Pending"
                 /\ m.sell_order.status = "Pending"
                 /\ m.buy_order.trader # m.sell_order.trader
                 /\ m.buy_order.pool_key = m.sell_order.pool_key
                 /\ m.buy_order.price >= m.sell_order.price
                 /\ \E i, j \in 1..Len(fm_orders) :
                        /\ m.buy_order = ToOrder(fm_orders[i], now)
                        /\ m.sell_order = ToOrder(fm_orders[j], now)

\* A pass that emitted a match.
C1_Witness ==
    /\ fm_result.called
    /\ fm_result.ok
    /\ Len(fm_result.matches) = 1

\* C2: every match has the mean of the two limit prices as matched_price,
\* the smaller of the two amounts as matched_amount, and the pool of both
\* orders as pool_key.
C2_MatchPriceAmountPool ==
    \A k \in 1..Len(fm_result.matches) :
        LET m == fm_result.matches[k]
        IN /\ 2 * m.matched_price = m.buy_order.price + m.sell_order.price
           /\ m.matched_amount <= m.buy_order.amount
           /\ m.matched_amount <= m.sell_order.amount
           /\ m.matched_amount \in {m.buy_order.amount, m.sell_order.amount}
           /\ m.pool_key = m.buy_order.pool_key
           /\ m.pool_key = m.sell_order.pool_key

\* A match of two orders that differ in price and in amount.
C2_Witness ==
    \E k \in 1..Len(fm_result.matches) :
        /\ fm_result.matches[k].buy_order.price > fm_result.matches[k].sell_order.price
        /\ fm_result.matches[k].buy_order.amount > fm_result.matches[k].sell_order.amount

\* The scenario of test_get_best_bid_ask: pool ETH_USDC_3000, a buy at 1999
\* and a sell at 2001, 100 each, two traders, deadlines one hour ahead.
Scenario3 ==
    /\ Len(fm_orders) = 2
    /\ fm_orders[1].order_type = "Buy"
    /\ fm_orders[1].price = Fx(1999)
    /\ fm_orders[2].order_type = "Sell"
    /\ fm_orders[2].price = Fx(2001)
    /\ \A k \in 1..2 :
          /\ fm_orders[k].pool_key = "ETH_USDC_3000"
          /\ fm_orders[k].amount = Fx(100)
          /\ fm_orders[k].deadline = now + 3600
    /\ fm_orders[1].trader # fm_orders[2].trader
    /\ fm_result.called

ScenarioBook3 == FillBook(OrderBookNew("ETH_USDC_3000"), fm_orders, now).book

ScenarioQuotes3 ==
    /\ GetBestBid(ScenarioBook3) = Some(Fx(1999))
    /\ GetBestAsk(ScenarioBook3) = Some(Fx(2001))
    /\ GetSpread(ScenarioBook3) = Some(Fx(2))

\* C3 as stated: in the scenario best bid is 1999, best ask 2001, spread 2,
\* and the matching pass yields exactly one match at 2000 with amount 100.
C3_ScenarioOneMatch ==
    Scenario3 =>
        /\ ScenarioQuotes3
        /\ fm_result.ok
        /\ Len(fm_result.matches) = 1
        /\ fm_result.matches[1].matched_price = Fx(2000)
        /\ fm_result.matches[1].matched_amount = Fx(100)

\* C3 amended: in the scenario best bid is 1999, best ask 2001, spread 2,
\* and the matching pass succeeds with no match, the buy being priced below
\* the sell.
C3_ScenarioNoMatch ==
    Scenario3 =>
        /\ ScenarioQuotes3
        /\ fm_result.ok
        /\ fm_result.matches = <<>>

\* The scenario's two orders, handed to the pass.
C3_Witness == Scenario3

---------------------------------------------------------------------------
(* Claims: the order book *)

\* Every entry of the price levels, as <<side, price, position>>.
LevelSlots(book) ==
    {<<"Buy", pr, i>> : pr \in DOMAIN book.buy_orders, i \in 1..MaxOrders + 1}
        \cup {<<"Sell", pr, i>> : pr \in DOMAIN book.sell_orders, i \in 1..MaxOrders + 1}

SlotLevel(book, slot) ==
    IF slot[1] = "Buy" THEN book.buy_orders[slot[2]] ELSE book.sell_orders[slot[2]]

Entries(book) == {slot \in LevelSlots(book) : slot[3] <= Len(SlotLevel(book, slot))}

EntryAt(book, slot) == SlotLevel(book, slot)[slot[3]]

Returned(book, t) ==
    {GetBuyOrders(book, t)[i] : i \in 1..Len(GetBuyOrders(book, t))}
        \cup {GetSellOrders(book, t)[i] : i \in 1..Len(GetSellOrders(book, t))}

\* The status update_order_status last gave the order, else its own.
CurrentStatus(book, order) ==
    IF order.id \in DOMAIN book.orders_by_id
    THEN book.orders_by_id[order.id].status
    ELSE order.status

\* C4: get_buy_orders and get_sell_orders return only active orders: the
\* current status of each is Pending or PartiallyFilled, and now < deadline.
C4_OnlyActiveReturned ==
    \A order \in Returned(order_book, now) :
        /\ CurrentStatus(order_book, order) \in {"Pending", "PartiallyFilled"}
        /\ now < order.deadline

\* C5: an id is in a price level exactly when it is a key of the id index,
\* it is in exactly one price-level entry, and that entry equals the index's
\* copy.
C5_IndexAgreement ==
    /\ \A slot \in Entries(order_book) :
          EntryAt(order_book, slot).id \in DOMAIN order_book.orders_by_id
    /\ \A id \in DOMAIN order_book.orders_by_id :
          /\ Cardinality({slot \in Entries(order_book) :
                             EntryAt(order_book, slot).id = id}) = 1
          /\ \A slot \in Entries(order_book) :
                EntryAt(order_book, slot).id = id =>
                    EntryAt(order_book, slot) = order_book.orders_by_id[id]

\* No order of the book was past its deadline when it was added.
NoneAddedExpired(book) ==
    /\ \A slot \in Entries(book) :
          EntryAt(book, slot).deadline >= EntryAt(book, slot).timestamp
    /\ \A id \in DOMAIN book.orders_by_id :
          book.orders_by_id[id].deadline >= book.orders_by_id[id].timestamp

---------------------------------------------------------------------------
(* Claims: the matching tick and the pending set *)

MatchedId(id, matches) ==
    \E k \in 1..Len(matches) :
        matches[k].buy_order.id = id \/ matches[k].sell_order.id = id

Unmatched(pending, matches) ==
    SelectSeq(pending, LAMBDA d : ~MatchedId(d.id, matches))

\* C7: after a tick that returns successfully, the pending set is the
\* previous one without the orders whose id is the buy or the sell id of a
\* returned match; the others remain, in their previous order.
C7_PendingMinusMatched ==
    [][(ProcessPendingOrdersCall /\ tick_result'.ok) =>
           pending_orders' = Unmatched(pending_orders, tick_result'.matches)]_vars

\* A tick matched some orders and left another pending.
C7_Witness ==
    /\ tick_result.called
    /\ tick_result.ok
    /\ tick_result.matches # <<>>
    /\ pending_orders # <<>>

Insertable(pending, t) == SelectSeq(pending, LAMBDA d : ~(t > d.deadline))

\* C8: a tick skips a pending order that its pool's book refuses: it returns
\* successfully, with the matches of the other orders, and those matched
\* orders are removed from pending.
C8_RefusedOrderSkipped ==
    [][ProcessPendingOrdersCall =>
           /\ tick_result'.ok
           /\ \E pools \in Orderings(PoolKeys(Insertable(pending_orders, now))) :
                  tick_result'.matches =
                      ProcessPendingOrders(Insertable(pending_orders, now),
                                           recent_matches, pools, now).matches
           /\ pending_orders' = Unmatched(pending_orders, tick_result'.matches)]_vars

\* An order of this id is pending and its deadline has passed.
ExpiredPending(id) ==
    \E i \in 1..Len(pending_orders) :
        pending_orders[i].id = id /\ now > pending_orders[i].deadline

\* C9: while the tick keeps being run, every order added to the pending set
\* is eventually removed from it, by a match or by expiry: at the latest, an
\* order whose deadline has passed leaves the pending set.
C9_PendingEventuallyRemoved ==
    \A id \in EngineIds : ExpiredPending(id) ~> ~ExpiredPending(id)

\* C10: every pending entry is the decryption of the ciphertext it arrived
\* with: the ciphertext decrypts, and trader, pool, side, amount, price and
\* deadline are those that were encrypted.
C10_PendingIsDecryption ==
    \A i \in 1..Len(pending_orders) :
        LET entry == pending_orders[i]
            opened == DecryptOrder(OperatorKey, entry.encrypted_data, entry.id)
        IN /\ opened.ok
           /\ entry.trader = opened.order[1].trader
           /\ entry.pool_key = opened.order[1].pool_key
           /\ entry.order_type = opened.order[1].order_type
           /\ entry.amount = opened.order[1].amount
           /\ entry.price = opened.order[1].price
           /\ entry.deadline = opened.order[1].deadline

---------------------------------------------------------------------------
(* Claims: gossip *)

CacheEntry(g, message_id) ==
    IF message_id \in DOMAIN g.message_cache THEN Some(g.message_cache[message_id]) ELSE None

\* The call delivers the message and is a no-op that returns false.
RepeatIsNoOp(message) ==
    /\ handled'.result = FALSE
    /\ handled'.out = <<>>
    /\ CacheEntry(gossip'[Local], message.message_id)
           = CacheEntry(gossip[Local], message.message_id)

\* C11 as stated: once handle_incoming_message has returned true for a
\* message id, every later delivery of a message with that id returns false,
\* sends nothing and leaves the cache entry unchanged.
C11_RepeatIsNoOp ==
    [][\A message \in NodeMessages :
           (/\ <<Local, message.message_id>> \in processed
            /\ HandleIncomingMessageCall(message)) => RepeatIsNoOp(message)]_vars

\* C11: once handle_incoming_message has returned true for a message id,
\* every later delivery of a message with that id made while the id is still
\* in the message cache returns false, sends nothing and leaves the cache
\* entry unchanged.
C11_RepeatWhileCachedIsNoOp ==
    [][\A message \in NodeMessages :
           (/\ <<Local, message.message_id>> \in processed
            /\ message.message_id \in DOMAIN gossip[Local].message_cache
            /\ HandleIncomingMessageCall(message)) => RepeatIsNoOp(message)]_vars

\* A message that would otherwise be taken was delivered again and refused.
C11_Witness ==
    /\ handled.called
    /\ ~handled.result
    /\ <<Local, handled.message.message_id>> \in processed
    /\ handled.message.message_id \in DOMAIN gossip[Local].message_cache
    /\ VerifyMessageSignature(handled.message)
    /\ handled.message.ttl > 1
    /\ gossip[Local].peers # {}

\* The most copies one call can send in the network as it is.
MaxFanOut == SetMax({TargetCount(gossip[n].peers) : n \in Nodes})

\* f + f^2 + ... + f^h: the sends of a relay tree of fan-out f and depth h.
RECURSIVE TreeSends(_, _)
TreeSends(f, h) == IF h = 0 THEN 0 ELSE f * (1 + TreeSends(f, h - 1))

\* Every copy of a propagate_message message is within its 5 hops, with the
\* hop budget that is left, and the sends so far fit the relay tree.
WithinHops ==
    /\ \A copy \in net :
           copy.message.message_id \in issued =>
               /\ copy.hop <= 5
               /\ copy.message.ttl = 5 - (copy.hop - 1)
    /\ \A message_id \in DOMAIN send_count :
           message_id \in issued => send_count[message_id] <= TreeSends(MaxFanOut, 5)

\* What handle_incoming_message does to the hop budget of the copy.
HopBudgetSpent(copy) ==
    /\ \A k \in 1..Len(handled'.out) : handled'.out[k].message.ttl = copy.message.ttl - 1
    /\ (copy.message.ttl = 1 /\ VerifyMessageSignature(copy.message)) =>
           /\ handled'.out = <<>>
           /\ copy.message.message_id \in DOMAIN gossip'[copy.to].message_cache
    /\ copy.message.ttl = 0 =>
           /\ ~handled'.result
           /\ handled'.out = <<>>
           /\ gossip' = gossip

\* C12: a message created by propagate_message (ttl 5) is relayed over at most
\* 5 hops and the number of sends is bounded; every relayed copy carries a
\* ttl one lower than the copy received, a copy received with ttl 1 is cached
\* and not relayed, a copy with ttl 0 is dropped, neither cached nor relayed.
C12_PropagationWithinTtl ==
    /\ []WithinHops
    /\ [][\A copy \in net : DeliverCopy(copy) => HopBudgetSpent(copy)]_vars

\* The message reached a node at its fifth hop, with ttl 1, and was cached
\* there and sent no further; a copy with ttl 0 has just been dropped.
C12_Witness ==
    /\ \E n \in Nodes, message_id \in issued :
           /\ message_id \in DOMAIN gossip[n].message_cache
           /\ gossip[n].message_cache[message_id].message.ttl = 1
           /\ gossip[n].message_cache[message_id].propagation_count = 0
    /\ handled.called
    /\ handled.message.ttl = 0
    /\ ~handled.result

\* The node that created the message.
Originator(message) == CHOOSE n \in Nodes : LocalPeerId(n) = message.sender_id

\* C13: when handle_incoming_message relays a message, no copy goes to the
\* peer the node received it from; stated for the copies received from a peer
\* that is not the message's originator, which the claim names.
C13_RelayExcludesImmediateSender ==
    [][\A copy \in net :
           (/\ copy.from \in Nodes
            /\ copy.from # Originator(copy.message)
            /\ DeliverCopy(copy)) =>
               \A k \in 1..Len(handled'.out) : NodeOf(handled'.out[k].peer_id) # copy.from]_vars

\* The size the claim gives: min(max(1, ceil(sqrt(n))), eligible peers).
ClaimedSize(peers, sender_id) ==
    LET n == Cardinality(peers)
        root == CHOOSE r \in 0..n : r * r >= n /\ (r = 0 \/ (r - 1) * (r - 1) < n)
        atLeastOne == IF root < 1 THEN 1 ELSE root
        eligible == Cardinality(peers \ {sender_id})
    IN IF atLeastOne < eligible THEN atLeastOne ELSE eligible

\* C14: the targets chosen by propagate_message or by a relay are distinct
\* peers of the node, none is the message's sender_id, and there are
\* min(max(1, ceil(sqrt(n))), peers other than the sender) of them: 4 with 10
\* peers none of which is the sender, none when no peer is eligible.
C14_TargetSet ==
    sel.called =>
        /\ \A i, j \in 1..Len(sel.targets) : sel.targets[i] = sel.targets[j] => i = j
        /\ \A i \in 1..Len(sel.targets) :
               sel.targets[i] \in sel.g.peers /\ sel.targets[i] # sel.message.sender_id
        /\ Len(sel.targets) = ClaimedSize(sel.g.peers, sel.message.sender_id)
        /\ (Cardinality(sel.g.peers) = 10 /\ sel.message.sender_id \notin sel.g.peers) =>
               Len(sel.targets) = 4
        /\ sel.g.peers \ {sel.message.sender_id} = {} => sel.targets = <<>>

\* Ten peers, the sender not among them, and four of them chosen.
C14_Witness ==
    /\ sel.called
    /\ Cardinality(sel.g.peers) = 10
    /\ sel.message.sender_id \notin sel.g.peers
    /\ Len(sel.targets) = 4

---------------------------------------------------------------------------
(* Claims: encryption *)

\* The key the message in hand was sealed under is the key in use.
SameKey == envelope[1].item.encrypted_data.key = encryption.local_key

\* The message in hand was sealed less than one hour ago.
LessThanOneHourOld == now - envelope[1].item.timestamp < MessageMaxAge

\* decrypt_order returned the sealed order's fields.
ReturnsOrderFields(r, order_data) ==
    /\ r.ok
    /\ r.value[1].trader = order_data.trader
    /\ r.value[1].pool_key = order_data.pool_key
    /\ r.value[1].order_type = order_data.order_type
    /\ r.value[1].amount = order_data.amount
    /\ r.value[1].price = order_data.price
    /\ r.value[1].deadline = order_data.deadline

\* The step is a decrypt_message call on the message in hand, altered so.
DecryptsMessage(how) == crypto_ret'.op = "decrypt_message" /\ DecryptMessageCall(how)

DecryptsBulkData == crypto_ret'.op = "decrypt_bulk_data" /\ DecryptBulkDataCall

DecryptsOrder(order_id) == crypto_ret'.op = "decrypt_order" /\ DecryptOrderCall(order_id)

\* C15: decrypt_message returns the message encrypt_message sealed,
\* decrypt_bulk_data the bytes encrypt_bulk_data sealed, and decrypt_order
\* the trader, pool, side, amount, price and deadline encrypt_order sealed,
\* whenever the key is the same and the message is less than one hour old.
C15_RoundTrips ==
    [][/\ DecryptsMessage(Unaltered) /\ SameKey /\ LessThanOneHourOld
          => crypto_ret'.ok /\ crypto_ret'.value = Some(envelope[1].plain)
       /\ DecryptsBulkData /\ SameKey
          => crypto_ret'.ok /\ crypto_ret'.value = Some(envelope[1].plain)
       /\ \A order_id \in EngineIds :
             DecryptsOrder(order_id)
             => ReturnsOrderFields(crypto_ret', envelope[1].plain)]_vars

\* The step is a successful encryption under the local key by the named
\* operation.
Encrypts(op) ==
    /\ crypto_ret'.op = op
    /\ crypto_ret'.ok
    /\ \/ \E message \in P2PMessages : EncryptMessageCall(message)
       \/ \E message \in P2PMessages, peer_id \in CryptoPeers :
             EncryptMessageForPeerCall(message, peer_id)
       \/ \E data \in BulkData : EncryptBulkDataCall(data)

\* C16: between two key rotations no encryption by encrypt_message,
\* encrypt_message_for_peer or encrypt_bulk_data uses a nonce that an
\* earlier one used under the same key.
C16_NoNonceReuse ==
    [][\A op \in {"encrypt_message", "encrypt_message_for_peer", "encrypt_bulk_data"} :
          Encrypts(op) => envelope'[1].item.nonce.value \notin nonces_used]_vars

\* The message in hand was sealed more than 3600 seconds before now.
TooOld == now > envelope[1].item.timestamp + MessageMaxAge

\* C17: decrypt_message returns an error and no plaintext for a message
\* whose signature fails verification or whose timestamp is more than 3600
\* seconds before now, whatever its ciphertext: the signature is checked
\* first, then the age, then the ciphertext.
C17_RejectsBadSignatureAndOld ==
    [][\A how \in Alterations :
          DecryptsMessage(how) =>
             /\ how.signature # SignatureLen
                => /\ ~crypto_ret'.ok
                   /\ crypto_ret'.value = None
                   /\ crypto_ret'.err = "Message signature verification failed"
             /\ how.signature = SignatureLen /\ TooOld
                => /\ ~crypto_ret'.ok
                   /\ crypto_ret'.value = None
                   /\ crypto_ret'.err = "Message too old"
             /\ how.signature = SignatureLen /\ ~TooOld
                => crypto_ret'.err \notin {"Message signature verification failed",
                                          "Message too old"}]_vars

\* A message sealed under the key in use came back after more than an hour
\* and was refused for its age.
C17_Witness ==
    /\ InHand("message")
    /\ SameKey
    /\ TooOld
    /\ crypto_ret.op = "decrypt_message"
    /\ ~crypto_ret.ok
    /\ crypto_ret.err = "Message too old"

\* The key the message in hand was sealed under.
SealingKey == envelope[1].item.encrypted_data.key

\* The keys rotate_keys has installed so far.
RotatedKeys == (FirstKey + 1)..encryption.local_key

\* The errors of decrypt_message up to and including the opening of the
\* ciphertext.
KeyStageErrors ==
    {"Message signature verification failed", "Message too old", "panic",
     "Message decryption failed"}

RotateKeepsPeerKeys ==
    RotateKeysCall => encryption'.peer_keys = encryption.peer_keys

EncryptsForPeer(peer_id) ==
    /\ crypto_ret'.op = "encrypt_message_for_peer"
    /\ \E message \in P2PMessages : EncryptMessageForPeerCall(message, peer_id)

\* The step is an encrypt_message or a create_broadcast_message call.
EncryptsForAll ==
    /\ crypto_ret'.op \in {"encrypt_message", "create_broadcast_message"}
    /\ \E message \in P2PMessages :
          EncryptMessageCall(message) \/ CreateBroadcastMessageCall(message)

HasPeerKey(peer_id) == peer_id \in DOMAIN encryption.peer_keys

\* The peer-key map has an entry for a peer from add_peer_key or
\* create_secure_channel until remove_peer_key or close_secure_channel, and
\* no other step changes its entries.
PeerKeyLifetime ==
    \A peer_id \in CryptoPeers :
        /\ AddPeerKeyCall(peer_id) \/ CreateSecureChannelCall(peer_id) => HasPeerKey(peer_id)'
        /\ RemovePeerKeyCall(peer_id) \/ CloseSecureChannelCall(peer_id) => ~HasPeerKey(peer_id)'
        /\ HasPeerKey(peer_id)' # HasPeerKey(peer_id)
           => \/ AddPeerKeyCall(peer_id) \/ CreateSecureChannelCall(peer_id)
              \/ RemovePeerKeyCall(peer_id) \/ CloseSecureChannelCall(peer_id)

\* C19: encrypt_message_for_peer(m, p) returns a message with recipient p
\* exactly when p has an entry in the peer-key map, put there by
\* add_peer_key or create_secure_channel and not removed since by
\* remove_peer_key or close_secure_channel; otherwise it returns the
\* peer-key-not-found error and no message.  encrypt_message and
\* create_broadcast_message return messages without recipient.
C19_PeerEncryptionNeedsPeerKey ==
    [][/\ PeerKeyLifetime
       /\ \A peer_id \in CryptoPeers :
             EncryptsForPeer(peer_id) =>
                IF HasPeerKey(peer_id)
                THEN /\ crypto_ret'.ok
                     /\ crypto_ret'.value # None
                     /\ crypto_ret'.value[1].recipient_id = Some(peer_id)
                ELSE /\ ~crypto_ret'.ok
                     /\ crypto_ret'.err = "Peer key not found"
                     /\ crypto_ret'.value = None
       /\ EncryptsForAll
          => crypto_ret'.ok /\ crypto_ret'.value[1].recipient_id = None]_vars

\* A message went out for peer_b, whose key is stored, while peer_c has
\* none.
C19_Witness ==
    /\ HasPeerKey("peer_b")
    /\ ~HasPeerKey("peer_c")
    /\ crypto_ret.op = "encrypt_message_for_peer"
    /\ crypto_ret.ok
    /\ crypto_ret.value[1].recipient_id = Some("peer_b")

---------------------------------------------------------------------------
(* Claims: the pending set's lock *)

\* C20: add_encrypted_order never waits for a running process_pending_orders
\* tick: a call made while a tick is in progress can complete without the
\* tick having finished.
C20_AddNeverWaitsForTick ==
    add_call # None /\ add_call[1].during_tick /\ tick_pc = "running" => ENABLED AddEnd

---------------------------------------------------------------------------
(* The guards of the RwLocks.  Every guarded structure sits behind its own  *)
(* tokio RwLock; an operation is the sequence of lock events it performs,   *)
(* a guard being released where its binding goes out of scope.  The tick's  *)
(* per-pool order book is an OrderBook of its own ("pool"), next to a       *)
(* stand-alone one ("book").                                                *)

Acquire(mode, lock) == [event |-> "acquire", mode |-> mode, lock |-> lock]

Release(lock) == [event |-> "release", mode |-> "", lock |-> lock]

\* A guard that lives while the events of inner happen.
Guarded(mode, lock, inner) == <<Acquire(mode, lock)>> \o inner \o <<Release(lock)>>

PendingLock == <<"engine", "pending_orders">>

RecentLock == <<"engine", "recent_matches">>

LevelsLock(b, side) == <<b, IF side = "Buy" THEN "buy_orders" ELSE "sell_orders">>

IndexLock(b) == <<b, "orders_by_id">>

CountLock(b) == <<b, "total_orders">>

\* add_order of an order that has not expired.
LockAddOrder(b, side) ==
    Guarded("write", LevelsLock(b, side), <<>>)
    \o Guarded("write", IndexLock(b), Guarded("write", CountLock(b), <<>>))

\* remove_order of an order the index holds.
LockRemoveOrder(b, side) ==
    Guarded("write", IndexLock(b),
            Guarded("write", LevelsLock(b, side), <<>>)
            \o Guarded("write", CountLock(b), <<>>))

\* remove_order of an unknown id.
LockRemoveUnknown(b) == Guarded("write", IndexLock(b), <<>>)

\* cleanup_expired_orders that finds the orders of the given sides expired.
RECURSIVE LockRemoveEach(_, _)
LockRemoveEach(b, sides) ==
    IF sides = <<>> THEN <<>>
    ELSE LockRemoveOrder(b, Head(sides)) \o LockRemoveEach(b, Tail(sides))

LockCleanupExpiredOrders(b, sides) ==
    Guarded("read", IndexLock(b), <<>>) \o LockRemoveEach(b, sides)

LockGetStats(b) ==
    Guarded("read", CountLock(b), <<>>)
    \o Guarded("read", LevelsLock(b, "Buy"), Guarded("read", LevelsLock(b, "Sell"), <<>>))

\* find_matches_in_pool: get_buy_orders, then get_sell_orders.
LockFindMatchesInPool(b) ==
    Guarded("read", LevelsLock(b, "Buy"), <<>>)
    \o Guarded("read", LevelsLock(b, "Sell"), <<>>)

RECURSIVE LockAddEach(_, _)
LockAddEach(b, sides) ==
    IF sides = <<>> THEN <<>>
    ELSE LockAddOrder(b, Head(sides)) \o LockAddEach(b, Tail(sides))

\* process_pending_orders over one pool with orders of the given sides,
\* which do or do not produce a match.
LockProcessPendingOrders(sides, matched) ==
    Guarded("write", PendingLock,
            IF Len(sides) < 2 THEN <<>>
            ELSE LockAddEach("pool", sides)
                 \o LockFindMatchesInPool("pool")
                 \o (IF matched THEN Guarded("write", RecentLock, <<>>) ELSE <<>>))

LockAddEncryptedOrder == Guarded("write", PendingLock, <<>>)

LockGetMatchingStats ==
    Guarded("read", RecentLock, Guarded("read", PendingLock, <<>>))

LockHealthCheck ==
    Guarded("read", PendingLock, <<>>) \o Guarded("read", RecentLock, <<>>)

Operation(op, script) == [op |-> op, script |-> script, pc |-> 1]

Tasks == {"matching", "events", "book"}

\* What each task may call.
Operations(task) ==
    CASE task = "matching" ->
           {Operation("process_pending_orders", LockProcessPendingOrders(<<>>, FALSE)),
            Operation("process_pending_orders", LockProcessPendingOrders(<<"Buy", "Buy">>, FALSE)),
            Operation("process_pending_orders", LockProcessPendingOrders(<<"Buy", "Sell">>, TRUE))}
      [] task = "events" ->
           {Operation("add_encrypted_order", LockAddEncryptedOrder),
            Operation("get_matching_stats", LockGetMatchingStats),
            Operation("health_check", LockHealthCheck)}
      [] task = "book" ->
           {Operation("add_order", LockAddOrder("book", side)) : side \in {"Buy", "Sell"}}
           \cup {Operation("remove_order", LockRemoveOrder("book", side)) : side \in {"Buy", "Sell"}}
           \cup {Operation("remove_order", LockRemoveUnknown("book")),
                 Operation("cleanup_expired_orders", LockCleanupExpiredOrders("book", <<>>)),
                 Operation("cleanup_expired_orders", LockCleanupExpiredOrders("book", <<"Buy">>)),
                 Operation("get_stats", LockGetStats("book"))}

\* The guards a run holds: acquired and not yet released.
HeldBy(run) ==
    {i \in 1..(run.pc - 1) :
        /\ run.script[i].event = "acquire"
        /\ \A j \in (i + 1)..(run.pc - 1) :
              ~(run.script[j].event = "release" /\ run.script[j].lock = run.script[i].lock)}

HeldLocks(run) == {run.script[i].lock : i \in HeldBy(run)}

\* A tokio RwLock grants a write guard when nobody holds a guard, a read
\* guard when nobody holds the write guard.
Grantable(task, event) ==
    \A other \in DOMAIN lock_run \ {task} :
        \A i \in HeldBy(lock_run[other]) :
            lock_run[other].script[i].lock = event.lock
            => event.mode = "read" /\ lock_run[other].script[i].mode = "read"

lockRest ==
    <<now, bookVars, matchVars, engineVars, gossipVars, cryptoVars, lockVars,
      p2pVars, queryVars>>

\* A task calls an operation.
CallOperation(task, operation) ==
    /\ task \notin DOMAIN lock_run
    /\ lock_run' = MapPut(lock_run, task, operation)
    /\ UNCHANGED lockRest

\* A task performs its next lock event; after the last one the operation
\* has returned.
LockStep(task) ==
    /\ task \in DOMAIN lock_run
    /\ LET run == lock_run[task]
           event == run.script[run.pc]
       IN /\ event.event = "acquire" => Grantable(task, event)
          /\ lock_run' = IF run.pc = Len(run.script)
                         THEN MapDel(lock_run, task)
                         ELSE MapPut(lock_run, task, [run EXCEPT !.pc = @ + 1])
    /\ UNCHANGED lockRest

NextGuards ==
    \/ \E task \in Tasks : \E operation \in Operations(task) : CallOperation(task, operation)
    \/ \E task \in Tasks : LockStep(task)

SpecGuards == InitCommon /\ [][NextGuards]_vars

---------------------------------------------------------------------------
(* Claims: the guards *)

\* C21: no operation of MatchingEngine or OrderBook holds the lock of more
\* than one guarded structure (pending set, match history, buy levels, sell
\* levels, id index, order count) at the same time.
C21_OneLockAtATime ==
    \A task \in DOMAIN lock_run : Cardinality(HeldLocks(lock_run[task])) <= 1

---------------------------------------------------------------------------
(* p2p.rs: the coordinator's peers.  A PeerConnection is kept per peer id;  *)
(* last_ping is written when the connection is made and read by the         *)
(* maintenance pass.                                                        *)

PeerTimeout == 300

MinPeers == 3

PeerConnectionNew(t) == [last_ping |-> t, message_count |-> 0, last_seen |-> t]

\* add_peer: the coordinator's map, then the gossip layer.
P2PAddPeer(peers, g, peer_id, t) ==
    [peers |-> MapPut(peers, peer_id, PeerConnectionNew(t)), g |-> AddPeer(g, peer_id)]

\* send_message_to_peer: the direct gossip message has a fresh id, so the
\* gossip cache is not touched; the send fails for a peer that either layer
\* does not know.
P2PSendMessageToPeer(peers, g, peer_id, t) ==
    IF peer_id \in DOMAIN peers /\ peer_id \in g.peers
    THEN [ok |-> TRUE,
          peers |-> [peers EXCEPT ![peer_id] =
                        [@ EXCEPT !.message_count = @ + 1, !.last_seen = t]]]
    ELSE [ok |-> FALSE, peers |-> peers]

\* The removal that does not reach the gossip layer.
P2PRemovePeerLocally(peers, g, peer_id) ==
    [peers |-> MapDel(peers, peer_id), g |-> g]

\* remove_peer of the coordinator.
P2PRemovePeer(peers, g, peer_id) ==
    IF peer_id \in DOMAIN peers
    THEN [peers |-> MapDel(peers, peer_id), g |-> RemovePeer(g, peer_id)]
    ELSE [peers |-> peers, g |-> g]

\* The test of the maintenance pass that never finds a peer inactive.
IsInactiveNever(connection, t) == FALSE

IsInactive(connection, t) == t - connection.last_ping > PeerTimeout

\* The first loop of maintain_peer_connections: inactive peers are
\* collected, the others pinged; a failed ping makes a peer inactive too.
RECURSIVE PingLoop(_, _, _, _, _)
PingLoop(peers, g, peer_ids, inactive_peers, t) ==
    IF peer_ids = <<>> THEN [peers |-> peers, inactive_peers |-> inactive_peers]
    ELSE LET peer_id == Head(peer_ids)
             sent == P2PSendMessageToPeer(peers, g, peer_id, t)
         IN IF IsInactive(peers[peer_id], t)
            THEN PingLoop(peers, g, Tail(peer_ids), Append(inactive_peers, peer_id), t)
            ELSE IF sent.ok
            THEN PingLoop(sent.peers, g, Tail(peer_ids), inactive_peers, t)
            ELSE PingLoop(peers, g, Tail(peer_ids), Append(inactive_peers, peer_id), t)

RECURSIVE RemoveLoop(_, _, _)
RemoveLoop(peers, g, inactive_peers) ==
    IF inactive_peers = <<>> THEN [peers |-> peers, g |-> g]
    ELSE LET r == P2PRemovePeer(peers, g, Head(inactive_peers))
         IN RemoveLoop(r.peers, r.g, Tail(inactive_peers))

\* request_more_peers: a PeerListRequest to every peer; failures are logged.
RECURSIVE RequestMorePeers(_, _, _, _)
RequestMorePeers(peers, g, peer_ids, t) ==
    IF peer_ids = <<>> THEN peers
    ELSE RequestMorePeers(P2PSendMessageToPeer(peers, g, Head(peer_ids), t).peers,
                          g, Tail(peer_ids), t)

\* maintain_peer_connections, peer_ids being the order the map yields its
\* keys in.
MaintainPeerConnections(peers, g, peer_ids, t) ==
    LET pinged == PingLoop(peers, g, peer_ids, <<>>, t)
        removed == RemoveLoop(pinged.peers, g, pinged.inactive_peers)
        left == SelectSeq(peer_ids, LAMBDA peer_id : peer_id \in DOMAIN removed.peers)
    IN [peers |-> IF Cardinality(DOMAIN removed.peers) < MinPeers
                  THEN RequestMorePeers(removed.peers, removed.g, left, t)
                  ELSE removed.peers,
        g |-> removed.g]

---------------------------------------------------------------------------
(* The coordinator under its callers: connections are made, messages are    *)
(* broadcast, the maintenance pass runs, time passes.                       *)

MaxMessageCount == 4

PingInstants == {0, 300, 301}

BroadcastIds == {"m1"}

p2pRest ==
    <<bookVars, matchVars, engineVars, cryptoVars, lockVars, scriptVars, queryVars,
      net, issued, send_count, handled, processed, sel>>

Counts(peers) == {peers[peer_id].message_count : peer_id \in DOMAIN peers}

\* handle_incoming_connection after a handshake: add_peer.
P2PAddPeerCall(peer_id) ==
    /\ peer_id \notin DOMAIN p2p_peers
    /\ LET r == P2PAddPeer(p2p_peers, gossip[Local], peer_id, now)
       IN /\ p2p_peers' = r.peers
          /\ gossip' = [gossip EXCEPT ![Local] = r.g]
    /\ UNCHANGED <<now, p2pRest>>

\* broadcast_message: a direct send to every peer, then propagate_message.
BroadcastMessageCall(message_id) ==
    /\ message_id \notin DOMAIN gossip[Local].message_cache
    /\ \A c \in Counts(p2p_peers) : c + 1 <= MaxMessageCount
    /\ \E peer_ids \in Orderings(DOMAIN p2p_peers) :
       \E target_peers \in SelectGossipTargets(gossip[Local],
                                               CreateGossipMessage(gossip[Local], message_id)) :
          /\ p2p_peers' = RequestMorePeers(p2p_peers, gossip[Local], peer_ids, now)
          /\ gossip' = [gossip EXCEPT ![Local] =
                           PropagateMessage(@, message_id, target_peers, now).g]
    /\ UNCHANGED <<now, p2pRest>>

MaintainPeerConnectionsCall ==
    /\ \A c \in Counts(p2p_peers) : c + 2 <= MaxMessageCount
    /\ \E peer_ids \in Orderings(DOMAIN p2p_peers) :
          LET r == MaintainPeerConnections(p2p_peers, gossip[Local], peer_ids, now)
          IN /\ p2p_peers' = r.peers
             /\ gossip' = [gossip EXCEPT ![Local] = r.g]
    /\ UNCHANGED <<now, p2pRest>>

PingClock ==
    /\ \E t \in PingInstants : t > now /\ now' = t
    /\ UNCHANGED <<p2pVars, gossipVars, bookVars, matchVars, engineVars, cryptoVars,
                   lockVars, scriptVars, queryVars>>

InitPeers ==
    /\ now = 0
    /\ IdleBook
    /\ IdleMatch
    /\ IdleEngine
    /\ IdleCrypto
    /\ IdleLock
    /\ IdleScript
    /\ IdleP2P
    /\ IdleQuery
    /\ gossip = [n \in {Local} |-> GossipProtocolNew(LocalPeerId(Local), 0)]
    /\ net = {}
    /\ issued = {}
    /\ send_count = EmptyMap
    /\ handled = NotHandled
    /\ processed = {}
    /\ sel = NotSelected

NextPeers ==
    \/ \E peer_id \in NodePeers : P2PAddPeerCall(peer_id)
    \/ \E message_id \in BroadcastIds : BroadcastMessageCall(message_id)
    \/ MaintainPeerConnectionsCall
    \/ PingClock

SpecPeers == InitPeers /\ [][NextPeers]_vars

---------------------------------------------------------------------------
(* Claims: peer maintenance *)

\* The peers whose last_ping lies more than 300 s back.
StalePeers == {peer_id \in DOMAIN p2p_peers : now - p2p_peers[peer_id].last_ping > 300}

SentTo(g) ==
    UNION {{g.message_cache[id].peers_sent_to[k] :
                k \in 1..Len(g.message_cache[id].peers_sent_to)} :
           id \in DOMAIN g.message_cache}

\* C22: a peer for which no ping has succeeded for more than 300 s is
\* removed from the coordinator's peer set and from the gossip peer set by
\* the next maintenance pass, and its id is removed from the sent-to set of
\* every cached gossip message.
C22_StalePeersRemoved ==
    [][MaintainPeerConnectionsCall =>
          \A peer_id \in StalePeers :
              /\ peer_id \notin DOMAIN p2p_peers'
              /\ peer_id \notin gossip'[Local].peers
              /\ peer_id \notin SentTo(gossip'[Local])]_vars

\* A message went out to a peer, and maintenance has since removed every
\* peer: the message is still cached, its sent-to set is empty.
C22_Witness ==
    /\ now = 301
    /\ p2p_peers = EmptyMap
    /\ gossip[Local].peers = {}
    /\ \E id \in DOMAIN gossip[Local].message_cache :
          /\ gossip[Local].message_cache[id].propagation_count > 0
          /\ gossip[Local].message_cache[id].peers_sent_to = <<>>

---------------------------------------------------------------------------
(* The match history near its capacity: the engine has been matching for a  *)
(* while, orders keep arriving and ticks keep running.                      *)

\* The k-th match of the earlier ticks; the amounts tell them apart.
EarlierMatch(k) ==
    LET buy_order == CHOOSE d \in TickOrders : d.id = "a1" /\ d.order_type = "Buy"
        sell_order == CHOOSE d \in TickOrders : d.id = "a2" /\ d.order_type = "Sell"
    IN [OrderMatch(ToOrder(buy_order, 0), ToOrder(sell_order, 0), 0)
           EXCEPT !.matched_amount = Fx(k)]

Earlier(n) == [k \in 1..n |-> EarlierMatch(k)]

HistoryLengths == {98, 99, 100}

\* What is pending when the history is looked at: orders of one pool.
HistoryOrders == {d \in TickOrders : d.pool_key = "ETH_USDC_3000"}

HistoryInputs == UNION {[1..n -> HistoryOrders] : n \in 0..2}

InitHistory ==
    /\ now = 0
    /\ IdleBook
    /\ IdleCrypto
    /\ IdleLock
    /\ IdleScript
    /\ IdleP2P
    /\ IdleQuery
    /\ IdleMatch
    /\ IdleGossip
    /\ pending_orders \in HistoryInputs
    /\ recent_matches \in {Earlier(n) : n \in HistoryLengths}
    /\ tick_result = NoResult

NextHistory ==
    \/ AddEncryptedOrderCall("o", Garbage(4))
    \/ ProcessPendingOrdersCall
    \/ AdvanceClock

SpecHistory == InitHistory /\ [][NextHistory]_vars

---------------------------------------------------------------------------
(* Claims: the match history *)

\* The last n elements of s, all of s when it has fewer.
LastOf(s, n) == [k \in 1..Min(n, Len(s)) |-> s[Len(s) - Min(n, Len(s)) + k]]

\* C23: after any sequence of ticks the recent-match history holds at most
\* 100 matches, and they are the most recently produced ones in production
\* order: a tick appends its matches and the oldest are evicted first; no
\* other operation changes the history.
C23_HistoryKeepsLast100 ==
    [][/\ Len(recent_matches') <= 100
       /\ IF ProcessPendingOrdersCall
          THEN recent_matches' = LastOf(recent_matches \o tick_result'.matches, 100)
          ELSE recent_matches' = recent_matches]_vars

\* A tick produced two matches on top of 99: the oldest is gone, the second
\* oldest leads, the two new ones close the history.
C23_Witness ==
    /\ tick_result.called
    /\ Len(tick_result.matches) = 2
    /\ Len(recent_matches) = 100
    /\ recent_matches[1] = EarlierMatch(2)
    /\ SubSeq(recent_matches, 99, 100) = tick_result.matches

---------------------------------------------------------------------------
(* Claims: a tick with nothing to match *)

Sides(orders, pool_key) ==
    {orders[i].order_type : i \in PoolIndices(orders, pool_key)}

\* Every pool holds a single order or only orders of one side.
NothingToMatch(orders) ==
    \A pool_key \in PoolKeys(orders) :
        \/ Cardinality(PoolIndices(orders, pool_key)) = 1
        \/ Cardinality(Sides(orders, pool_key)) = 1

\* C24: process_pending_orders returns an empty list and no error, and
\* leaves the pending set and the match history unchanged, when every pool
\* holds a single order or only orders of one side.
C24_NothingToMatchIsQuiet ==
    [][ProcessPendingOrdersCall /\ NothingToMatch(pending_orders) =>
          /\ tick_result'.ok
          /\ tick_result'.matches = <<>>
          /\ pending_orders' = pending_orders
          /\ recent_matches' = recent_matches]_vars

---------------------------------------------------------------------------
(* The engine asked for its health while orders arrive and no tick takes    *)
(* them away.                                                               *)

healthRest ==
    <<bookVars, matchVars, gossipVars, cryptoVars, lockVars, scriptVars, p2pVars, query,
      recent_matches, tick_result>>

\* add_encrypted_order, its return value kept.
AddEncryptedOrderReturns(order_id, encrypted_data) ==
    /\ Len(pending_orders) < MaxPending
    /\ pending_orders' = AddEncryptedOrder(pending_orders, order_id, encrypted_data, now)
    /\ health' = [op |-> "add_encrypted_order", ok |-> TRUE, err |-> "",
                  value |-> Some(order_id)]
    /\ UNCHANGED <<now, healthRest>>

HealthCheckCall ==
    /\ LET r == HealthCheck(pending_orders, recent_matches)
       IN health' = [op |-> "health_check", ok |-> r.ok, err |-> "", value |-> Some(r.log)]
    /\ UNCHANGED <<now, pending_orders, healthRest>>

HealthClock ==
    /\ \E t \in Instants : t > now /\ now' = t
    /\ UNCHANGED <<pending_orders, health, healthRest>>

NextHealth ==
    \/ \E order_id \in EngineIds, encrypted_data \in Ciphertexts :
           AddEncryptedOrderReturns(order_id, encrypted_data)
    \/ HealthCheckCall
    \/ HealthClock

SpecHealth == InitCommon /\ [][NextHealth]_vars

---------------------------------------------------------------------------
(* Claims: a pending set above its configured size *)

\* C25: add_encrypted_order always succeeds and appends the order to the
\* pending set, also when the set holds more than max_pending_orders
\* entries, and health_check still returns success.
C25_NoCapOnPending ==
    [][/\ health'.op = "add_encrypted_order"
          /\ (health' # health \/ pending_orders' # pending_orders)
          => /\ health'.ok
             /\ Len(pending_orders') = Len(pending_orders) + 1
             /\ SubSeq(pending_orders', 1, Len(pending_orders)) = pending_orders
             /\ pending_orders'[Len(pending_orders')].id = health'.value[1]
       /\ health'.op = "health_check" => health'.ok]_vars

\* health_check answered with two orders more than max_pending_orders
\* pending: the last of them arrived when the set was above it already.
C25_Witness ==
    /\ Len(pending_orders) >= max_pending_orders + 2
    /\ health.op = "health_check"
    /\ health.ok
    /\ health.value = Some("High number of pending orders")

---------------------------------------------------------------------------
(* The order book asked for its orders and prices.  An order carries the   *)
(* time it was created at, which may lie before the time it is added.       *)

queryRest ==
    <<matchVars, engineVars, gossipVars, cryptoVars, lockVars, scriptVars, p2pVars, health>>

Answer(op, value) == [op |-> op, ok |-> TRUE, err |-> "", value |-> value]

\* add_order of an order created at time timestamp, to live for an hour.
AddCreatedOrderCall(id, pr, timestamp) ==
    /\ EntryCount(order_book) < MaxOrders
    /\ order_book.total_orders < MaxCount
    /\ timestamp <= now
    /\ LET order == [BookOrder(id, pr, timestamp + OrderLifetime)
                        EXCEPT !.timestamp = timestamp]
           added == AddOrder(order_book, order, now)
       IN /\ order_book' = added.book
          /\ ret' = IF added.ok THEN "Ok" ELSE added.err
    /\ UNCHANGED <<now, query, queryRest>>

GetBuyOrdersCall ==
    /\ query' = Answer("get_buy_orders", GetBuyOrders(order_book, now))
    /\ UNCHANGED <<now, bookVars, queryRest>>

GetSellOrdersCall ==
    /\ query' = Answer("get_sell_orders", GetSellOrders(order_book, now))
    /\ UNCHANGED <<now, bookVars, queryRest>>

GetBestBidCall ==
    /\ query' = Answer("get_best_bid", GetBestBid(order_book))
    /\ UNCHANGED <<now, bookVars, queryRest>>

GetBestAskCall ==
    /\ query' = Answer("get_best_ask", GetBestAsk(order_book))
    /\ UNCHANGED <<now, bookVars, queryRest>>

GetSpreadCall ==
    /\ query' = Answer("get_spread", GetSpread(order_book))
    /\ UNCHANGED <<now, bookVars, queryRest>>

CreationTimes == {0, 3600}

NextQuery ==
    \/ \E id \in BookIds, pr \in Prices, timestamp \in CreationTimes :
           AddCreatedOrderCall(id, pr, timestamp)
    \/ \E id \in BookIds : RemoveOrderCall(id)
    \/ GetBuyOrdersCall
    \/ GetSellOrdersCall
    \/ GetBestBidCall
    \/ GetBestAskCall
    \/ GetSpreadCall
    \/ AdvanceClock

SpecQuery == InitCommon /\ [][NextQuery]_vars

---------------------------------------------------------------------------
(* Claims: what the order book answers *)

Elements(s) == {s[i] : i \in 1..Len(s)}

\* The active orders of one side that the id index holds.
ActiveInIndex(book, side, t) ==
    {book.orders_by_id[id] : id \in {k \in DOMAIN book.orders_by_id :
        book.orders_by_id[k].order_type = side /\ IsActive(book.orders_by_id[k], t)}}

\* orders holds active orders of the side only, and every one the index
\* has.
ActiveOrdersOf(orders, side) ==
    /\ \A o \in Elements(orders) : o.order_type = side /\ IsActive(o, now)
    /\ ActiveInIndex(order_book, side, now) \subseteq Elements(orders)

TimestampAscending(a, b) == a.price = b.price /\ a.timestamp <= b.timestamp

\* C26: get_buy_orders returns the active buy orders sorted by price
\* descending, then timestamp ascending, and get_sell_orders the active sell
\* orders sorted by price ascending, then timestamp ascending, after any
\* sequence of add_order and remove_order calls.
C26_OrdersSorted ==
    [][/\ query'.op = "get_buy_orders" /\ GetBuyOrdersCall
          => /\ ActiveOrdersOf(query'.value, "Buy")
             /\ \A i, j \in 1..Len(query'.value) :
                   i < j => \/ query'.value[i].price > query'.value[j].price
                            \/ TimestampAscending(query'.value[i], query'.value[j])
       /\ query'.op = "get_sell_orders" /\ GetSellOrdersCall
          => /\ ActiveOrdersOf(query'.value, "Sell")
             /\ \A i, j \in 1..Len(query'.value) :
                   i < j => \/ query'.value[i].price < query'.value[j].price
                            \/ TimestampAscending(query'.value[i], query'.value[j])]_vars

\* get_buy_orders answered with two orders of one price, the older one
\* first.
C26_Witness ==
    /\ query.op = "get_buy_orders"
    /\ Len(query.value) = 2
    /\ query.value[1].price = query.value[2].price
    /\ query.value[1].timestamp < query.value[2].timestamp

\* The prices at which the book holds an order of the side in a level.
LevelPrices(levels) ==
    {price \in DOMAIN levels : \E i \in 1..Len(levels[price]) : levels[price][i].price = price}

Highest(S) == CHOOSE p \in S : \A q \in S : q <= p

Lowest(S) == CHOOSE p \in S : \A q \in S : p <= q

\* C27: get_best_bid returns the highest buy price level, get_best_ask the
\* lowest sell price level, and get_spread best ask minus best bid; each
\* returns none when a side it needs has no price level.
C27_BestPrices ==
    [][LET bids == LevelPrices(order_book.buy_orders)
           asks == LevelPrices(order_book.sell_orders)
       IN /\ query'.op = "get_best_bid" /\ GetBestBidCall
             => query'.value = IF bids = {} THEN None ELSE Some(Highest(bids))
          /\ query'.op = "get_best_ask" /\ GetBestAskCall
             => query'.value = IF asks = {} THEN None ELSE Some(Lowest(asks))
          /\ query'.op = "get_spread" /\ GetSpreadCall
             => query'.value = IF bids = {} \/ asks = {} THEN None
                               ELSE Some(Lowest(asks) - Highest(bids))]_vars

\* get_best_bid answered with the higher of two buy levels.
C27_Witness ==
    /\ query.op = "get_best_bid"
    /\ Cardinality(DOMAIN order_book.buy_orders) = 2
    /\ query.value = Some(Fx(2001))

---------------------------------------------------------------------------
(* Claims: the clean-up of expired orders *)

\* The orders the book holds, in a price level or in the id index.
Held(book) ==
    {EntryAt(book, slot) : slot \in Entries(book)}
    \cup {book.orders_by_id[id] : id \in DOMAIN book.orders_by_id}

\* C28: after cleanup_expired_orders returns, neither the price levels nor
\* the id index contain an order whose deadline is at or before the current
\* time, and orders that have not expired are untouched.
C28_CleanupRemovesExpired ==
    [][CleanupExpiredOrdersCall =>
          /\ \A o \in Held(order_book') : ~(o.deadline <= now)
          /\ \A o \in Held(order_book) : o.deadline > now => o \in Held(order_book')]_vars

---------------------------------------------------------------------------
(* Claims: the order count *)

\* C29: after any sequence of add_order, remove_order and
\* cleanup_expired_orders calls, adding an id the book holds and removing
\* an unknown id included, the total order count equals the number of
\* orders in the id index and the number of orders in the price levels.
C29_CountAgrees ==
    /\ order_book.total_orders = Cardinality(DOMAIN order_book.orders_by_id)
    /\ order_book.total_orders = EntryCount(order_book)

---------------------------------------------------------------------------
(* Claims: refused gossip messages *)

\* The signature does not verify, or the ttl has run out.
Refused(message) == message.signature # SignatureLen \/ message.ttl = 0

\* C30: handle_incoming_message returns false, adds nothing to the message
\* cache and sends nothing when the message's signature fails verification
\* or its ttl is 0; as nothing is cached, a later delivery of a message with
\* the same message_id, a valid signature and a ttl other than 0 is
\* processed as new: it returns true and the message is cached.
C30_RefusedLeavesNoTrace ==
    [][\A message \in NodeMessages :
           HandleIncomingMessageCall(message) =>
               /\ Refused(message)
                  => /\ handled'.result = FALSE
                     /\ handled'.out = <<>>
                     /\ send_count' = send_count
                     /\ gossip'[Local].message_cache = gossip[Local].message_cache
               /\ (/\ ~Refused(message)
                   /\ <<Local, message.message_id>> \notin processed)
                  => /\ handled'.result = TRUE
                     /\ CacheEntry(gossip'[Local], message.message_id)
                            = Some([message |-> message, first_seen |-> now,
                                    propagation_count |-> Len(handled'.out),
                                    peers_sent_to |-> [k \in 1..Len(handled'.out) |->
                                                          handled'.out[k].peer_id]])]_vars

\* A message with a bad signature was delivered and refused: its id, which
\* no call has returned true for, is not in the cache, with a peer at hand
\* to relay to.
C30_Witness ==
    /\ handled.called
    /\ ~handled.result
    /\ handled.message.signature # SignatureLen
    /\ handled.message.ttl > 1
    /\ <<Local, handled.message.message_id>> \notin processed
    /\ handled.message.message_id \notin DOMAIN gossip[Local].message_cache
    /\ gossip[Local].peers # {}

---------------------------------------------------------------------------
(* Claims: the engine's calls waiting for each other *)

\* The task waits for a guard that cannot be granted.
Waiting(task) ==
    /\ task \in DOMAIN lock_run
    /\ lock_run[task].script[lock_run[task].pc].event = "acquire"
    /\ ~Grantable(task, lock_run[task].script[lock_run[task].pc])

---------------------------------------------------------------------------
(* Claims: the peers a coordinator keeps *)

\* Both layers know the peer, so a ping to it is sent successfully.
Pingable(peer_id) == peer_id \in DOMAIN p2p_peers /\ peer_id \in gossip[Local].peers

\* C36: a peer to which the ping of every maintenance pass is sent
\* successfully is never removed from the peer set for inactivity, however
\* long it stays connected: a maintenance pass keeps every peer that a ping
\* can be sent to and that a message was sent to successfully within the
\* last 300 s.
C36_PingedPeerStays ==
    [][MaintainPeerConnectionsCall =>
          \A peer_id \in DOMAIN p2p_peers :
              /\ Pingable(peer_id)
              /\ p2p_peers[peer_id].message_count > 0
              /\ now - p2p_peers[peer_id].last_seen <= 300
              => peer_id \in DOMAIN p2p_peers']_vars

\* C38: after any sequence of peer additions and peer removals the
\* coordinator's connection map and the gossip protocol's peer set contain
\* exactly the same peer ids, and the sent-to set of every cached gossip
\* message is a subset of that peer set.
C38_PeerSetsAgree ==
    /\ DOMAIN p2p_peers = gossip[Local].peers
    /\ SentTo(gossip[Local]) \subseteq gossip[Local].peers

\* A message went to two peers, one of which has since been removed.
C38_Witness ==
    /\ Cardinality(DOMAIN p2p_peers) = 1
    /\ \E id \in DOMAIN gossip[Local].message_cache :
          /\ gossip[Local].message_cache[id].propagation_count = 2
          /\ Len(gossip[Local].message_cache[id].peers_sent_to) = 1

---------------------------------------------------------------------------
(* Claims: what a tick consumes *)

RECURSIVE SumSeq(_)
SumSeq(s) == IF s = <<>> THEN 0 ELSE Head(s) + SumSeq(Tail(s))

\* The amounts of the matches that contain the order with the id.
MatchedAmounts(matches, id) ==
    [k \in 1..Len(matches) |->
        IF matches[k].buy_order.id = id \/ matches[k].sell_order.id = id
        THEN matches[k].matched_amount ELSE 0]

\* The id is that of one pending order.
PendingOnce(pending, id) == Cardinality({i \in 1..Len(pending) : pending[i].id = id}) = 1

---------------------------------------------------------------------------
(* main.rs: the operator's handlers.  Events of the chain and messages of   *)
(* the peers arrive at handle_ethereum_event and handle_p2p_message, which  *)
(* pass them on to the matching engine.                                     *)

TaskIds == {"task_1"}

\* What retrieve_orders_for_task finds in the vault for a task: a sell and
\* a buy order that match.
TaskVault(task_id) ==
    <<EncryptOrder(OperatorKey, 1, SealedData),
      EncryptOrder(OperatorKey, 2, [SealedData EXCEPT !.trader = "trader_8",
                                                      !.order_type = "Buy"])>>

\* decrypt_orders: "for now, return mock orders".
DecryptOrders(encrypted_orders) == <<>>

EthereumEvents ==
    {[kind |-> "TaskCreated", id |-> task_id, data |-> Garbage(0)] : task_id \in TaskIds}
    \cup {[kind |-> "OrderStored", id |-> order_id, data |-> encrypted_order] :
             order_id \in EngineIds, encrypted_order \in Ciphertexts}
    \cup {[kind |-> kind, id |-> "task_1", data |-> Garbage(0)] :
             kind \in {"ProofSubmitted", "TaskCompleted"}}

OperatorMessages ==
    {[kind |-> "OrderGossip", id |-> order_id, data |-> encrypted_data] :
        order_id \in EngineIds, encrypted_data \in Ciphertexts}
    \cup {[kind |-> kind, id |-> "task_1", data |-> Garbage(0)] :
             kind \in {"MatchingResult", "Ping", "TaskAnnouncement"}}

Handled(op, ok, kind) == [op |-> op, ok |-> ok, err |-> "", value |-> Some(kind)]

eventRest ==
    <<now, bookVars, gossipVars, cryptoVars, lockVars, scriptVars, p2pVars, query, tick_result>>

\* process_matching_task: the orders are retrieved, which may fail, then
\* decrypted and handed to find_matches; no match, nothing to submit.
ProcessMatchingTask(task_id, retrieved) ==
    IF ~retrieved
    THEN /\ health' = Handled("handle_ethereum_event", FALSE, "TaskCreated")
         /\ UNCHANGED matchVars
    ELSE LET decrypted_orders == DecryptOrders(TaskVault(task_id))
         IN \E pools \in Orderings(PoolKeys(decrypted_orders)) :
               LET r == FindMatches(decrypted_orders, pools, now)
               IN /\ fm_orders' = decrypted_orders
                  /\ fm_result' = [called |-> TRUE, ok |-> r.ok, matches |-> r.matches]
                  /\ health' = Handled("handle_ethereum_event", r.ok, "TaskCreated")

HandleEthereumEventCall(event) ==
    /\ CASE event.kind = "TaskCreated" ->
              /\ \E retrieved \in BOOLEAN : ProcessMatchingTask(event.id, retrieved)
              /\ UNCHANGED <<pending_orders, recent_matches>>
         [] event.kind = "OrderStored" ->
              /\ Len(pending_orders) < MaxPending
              /\ pending_orders' = AddEncryptedOrder(pending_orders, event.id, event.data, now)
              /\ health' = Handled("handle_ethereum_event", TRUE, event.kind)
              /\ UNCHANGED <<recent_matches, matchVars>>
         [] OTHER ->
              /\ health' = Handled("handle_ethereum_event", TRUE, event.kind)
              /\ UNCHANGED <<pending_orders, recent_matches, matchVars>>
    /\ UNCHANGED eventRest

HandleP2PMessageCall(message) ==
    /\ IF message.kind = "OrderGossip"
       THEN /\ Len(pending_orders) < MaxPending
            /\ pending_orders' = AddEncryptedOrder(pending_orders, message.id, message.data, now)
       ELSE UNCHANGED pending_orders
    /\ health' = Handled("handle_p2p_message", TRUE, message.kind)
    /\ UNCHANGED <<recent_matches, matchVars, eventRest>>

NextEvents ==
    \/ \E event \in EthereumEvents : HandleEthereumEventCall(event)
    \/ \E message \in OperatorMessages : HandleP2PMessageCall(message)

SpecEvents == InitCommon /\ [][NextEvents]_vars

---------------------------------------------------------------------------
(* Claims: the handlers *)

\* Exactly one order with the id is appended to the pending set.
AppendsOne(id) ==
    /\ Len(pending_orders') = Len(pending_orders) + 1
    /\ SubSeq(pending_orders', 1, Len(pending_orders)) = pending_orders
    /\ pending_orders'[Len(pending_orders')].id = id

---------------------------------------------------------------------------
(* Claims: the ids of the pending set *)

\* C39: the pending set never holds two orders with the same id, also when
\* the same order arrives both as an OrderStored event and as an OrderGossip
\* message, or is delivered twice.
C39_PendingIdsUnique ==
    \A i, j \in 1..Len(pending_orders) :
        pending_orders[i].id = pending_orders[j].id => i = j

---------------------------------------------------------------------------
(* Claims: the lifetime of a cached message *)

\* Time passes whatever the node's callers do; that a message is propagated
\* or received is up to them.
FairSpecNode == SpecNode /\ WF_vars(AdvanceClock)

Cached(message_id) == message_id \in DOMAIN gossip[Local].message_cache

OlderThanOneHour(message_id) ==
    /\ Cached(message_id)
    /\ now - gossip[Local].message_cache[message_id].first_seen > CacheMaxAge

\* No step purges an entry that is at most one hour old.
NotPurgedEarly ==
    [][\A message_id \in NodeMessageIds :
          /\ Cached(message_id)
          /\ now' - gossip[Local].message_cache[message_id].first_seen <= CacheMaxAge
          => message_id \in DOMAIN gossip'[Local].message_cache]_vars

\* An entry older than one hour is purged in the end.
PurgedInTime ==
    \A message_id \in NodeMessageIds :
        OlderThanOneHour(message_id) ~> ~Cached(message_id)

\* C31: a cached gossip message is never purged before it is one hour old,
\* and once it is older than one hour it is purged within a bounded time,
\* also when no further message is propagated or received.
C31_CacheLifetime == NotPurgedEarly /\ PurgedInTime

---------------------------------------------------------------------------
(* Replay: one SecureMessage is delivered to decrypt_message again and      *)
(* again, while the key is rotated and time passes.                         *)

\* Deliveries of one message that are counted.
MaxDeliveries == 2

\* The message that is replayed, and what happens to it on the way.
ReplayMessages == {Ping}

ReplayAlterations == {Unaltered, [Unaltered EXCEPT !.signature = 4]}

\* How often decrypt_message has accepted the message in hand.
Accepted ==
    IF query.op = "decrypt_message" /\ query.value[1].item = envelope[1].item
    THEN query.value[1].count
    ELSE 0

DeliverMessageCall(how) ==
    /\ InHand("message")
    /\ Accepted < MaxDeliveries
    /\ LET r == DecryptMessage(encryption, Altered(envelope[1].item, how), now)
       IN /\ crypto_ret' = Outcome("decrypt_message", r)
          /\ query' = IF r.ok
                      THEN Answer("decrypt_message",
                                  Some([item |-> envelope[1].item, count |-> Accepted + 1]))
                      ELSE query
    /\ UNCHANGED <<encryption, envelope, nonces_used, health,
                   now, bookVars, matchVars, engineVars, gossipVars, lockVars, scriptVars, p2pVars>>

NextReplay ==
    \/ RotateKeysCall
    \/ \E message \in ReplayMessages : EncryptMessageCall(message)
    \/ \E how \in ReplayAlterations : DeliverMessageCall(how)
    \/ AdvanceClock

SpecReplay == InitCrypto /\ [][NextReplay]_vars

---------------------------------------------------------------------------
(* Claims: replay *)

\* decrypt_message reads the encryption layer and writes nothing.
DeliveryKeepsState ==
    \A how \in ReplayAlterations :
        DeliverMessageCall(how) => UNCHANGED <<encryption, envelope, nonces_used>>

\* C40 as stated: the same SecureMessage is accepted on every delivery, any
\* number of times, until its timestamp is more than 3600 seconds old, and
\* decrypt_message changes no state of the encryption layer.
C40_ReplayAccepted ==
    [][/\ DeliverMessageCall(Unaltered) /\ Accepted > 0 /\ ~TooOld => crypto_ret'.ok
       /\ DeliveryKeepsState]_vars

\* C40: a SecureMessage that decrypt_message accepted is accepted again on
\* every later delivery, with the same result, as long as the local key is
\* the one it was sealed under and its timestamp is at most 3600 seconds
\* old; once it is older it is refused; decrypt_message changes no state of
\* the encryption layer.
C40_ReplayAcceptedUnderSameKey ==
    [][/\ DeliverMessageCall(Unaltered) /\ Accepted > 0 /\ SameKey /\ ~TooOld
          => /\ crypto_ret'.ok
             /\ crypto_ret'.value = Some(envelope[1].plain)
             /\ Accepted' = Accepted + 1
       /\ DeliverMessageCall(Unaltered) /\ TooOld => ~crypto_ret'.ok
       /\ DeliveryKeepsState]_vars

\* A message was accepted for the second time, one hour after it was sealed.
C40_Witness ==
    /\ InHand("message")
    /\ Accepted = MaxDeliveries
    /\ now = envelope[1].item.timestamp + MessageMaxAge
    /\ now > 0
    /\ crypto_ret.op = "decrypt_message"
    /\ crypto_ret.ok

---------------------------------------------------------------------------
(* privacy.rs: decrypt_orders_batch under its caller *)

\* decrypt_orders_batch that gives up at the first order that fails.
RECURSIVE DecryptOrdersBatchAllOrNothing(_, _)
DecryptOrdersBatchAllOrNothing(key, encrypted_orders) ==
    IF encrypted_orders = <<>>
    THEN [ok |-> TRUE, err |-> "", value |-> Some(<<>>)]
    ELSE LET r == DecryptOrder(key, Head(encrypted_orders).encrypted_data,
                               Head(encrypted_orders).order_id)
             rest == DecryptOrdersBatchAllOrNothing(key, Tail(encrypted_orders))
         IN IF r.ok /\ rest.ok
            THEN [ok |-> TRUE, err |-> "", value |-> Some(<<r.order[1]>> \o rest.value[1])]
            ELSE [ok |-> FALSE, err |-> "DecryptionFailure", value |-> None]

\* The loop of decrypt_orders_batch: the orders decrypt_order returns, in
\* the order of the input; the others are counted and logged.
RECURSIVE DecryptedOrders(_, _)
DecryptedOrders(key, encrypted_orders) ==
    IF encrypted_orders = <<>>
    THEN <<>>
    ELSE LET r == DecryptOrder(key, Head(encrypted_orders).encrypted_data,
                               Head(encrypted_orders).order_id)
         IN (IF r.ok THEN <<r.order[1]>> ELSE <<>>)
                \o DecryptedOrders(key, Tail(encrypted_orders))

DecryptOrdersBatch(key, encrypted_orders) ==
    [ok |-> TRUE, err |-> "", value |-> Some(DecryptedOrders(key, encrypted_orders))]

\* Ciphertexts of a batch: too short, long enough but unauthentic, sealed
\* under another key, sealed with a price that does not parse, and sealed.
BatchCiphertexts ==
    {Garbage(4), Garbage(NonceLen + 4),
     EncryptOrder("stale_key", 1, SealedData),
     EncryptOrder(OperatorKey, 1, [SealedData EXCEPT !.price = NonFinite]),
     EncryptOrder(OperatorKey, 1, SealedData)}

BatchEntries ==
    [order_id : EngineIds, encrypted_data : BatchCiphertexts]

RECURSIVE EncryptedBatches(_)
EncryptedBatches(n) ==
    IF n = 0
    THEN {<<>>}
    ELSE EncryptedBatches(n - 1)
         \cup {Append(b, e) : b \in {x \in EncryptedBatches(n - 1) : Len(x) = n - 1},
                              e \in BatchEntries}

DecryptOrdersBatchCall(encrypted_orders) ==
    /\ envelope' = Some([kind |-> "batch", item |-> encrypted_orders, plain |-> <<>>])
    /\ crypto_ret' = Outcome("decrypt_orders_batch",
                              DecryptOrdersBatch(OperatorKey, encrypted_orders))
    /\ UNCHANGED <<encryption, nonces_used, cryptoRest>>

NextBatch ==
    \E encrypted_orders \in EncryptedBatches(MaxBatch) :
        DecryptOrdersBatchCall(encrypted_orders)

SpecBatch == InitCrypto /\ [][NextBatch]_vars

---------------------------------------------------------------------------
(* Claims: decrypt_orders_batch *)

\* The ciphertext is at least 12 bytes long, opens under the operator's key
\* and parses as an order.
DecryptsAndParses(encrypted_data) ==
    /\ encrypted_data.len >= NonceLen
    /\ encrypted_data.key = OperatorKey
    /\ encrypted_data.data # None
    /\ encrypted_data.data[1].amount # None
    /\ encrypted_data.data[1].price # None

\* The places of the batch whose ciphertext decrypts and parses.
GoodPlaces(encrypted_orders) ==
    {k \in 1..Len(encrypted_orders) : DecryptsAndParses(encrypted_orders[k].encrypted_data)}

\* The j-th of them.
GoodPlace(encrypted_orders, j) ==
    CHOOSE k \in GoodPlaces(encrypted_orders) :
        Cardinality({i \in GoodPlaces(encrypted_orders) : i <= k}) = j

\* C33: decrypt_orders_batch never fails as a whole: it returns, in input
\* order, exactly the orders whose ciphertext decrypts and parses, each under
\* its id and retaining its original ciphertext, and drops every other
\* order, ciphertexts shorter than 12 bytes included.
C33_BatchIsBestEffort ==
    crypto_ret.op = "decrypt_orders_batch" =>
        LET encrypted_orders == envelope[1].item
            decrypted_orders == crypto_ret.value[1]
        IN /\ crypto_ret.ok
           /\ Len(decrypted_orders) = Cardinality(GoodPlaces(encrypted_orders))
           /\ \A j \in 1..Len(decrypted_orders) :
                 LET entry == encrypted_orders[GoodPlace(encrypted_orders, j)]
                 IN /\ decrypted_orders[j].id = entry.order_id
                    /\ decrypted_orders[j].encrypted_data = entry.encrypted_data
                    /\ decrypted_orders[j].price = entry.encrypted_data.data[1].price[1]

\* A batch of a short ciphertext and a sealed order came back as the one
\* sealed order.
C33_Witness ==
    /\ crypto_ret.op = "decrypt_orders_batch"
    /\ Len(envelope[1].item) = 2
    /\ envelope[1].item[1].encrypted_data.len < NonceLen
    /\ Len(crypto_ret.value[1]) = 1
    /\ crypto_ret.value[1][1].id = envelope[1].item[2].order_id

---------------------------------------------------------------------------
(* privacy.rs: commitments.  SHA-256 is taken as collision-free: a hash is  *)
(* its preimage, the bytes fed to the hasher in order.                      *)

\* str::as_bytes of the names in use.
AsBytes(string) ==
    CASE string = "a" -> <<97>>
      [] string = "ab" -> <<97, 98>>
      [] string = "c" -> <<99>>
      [] string = "bc" -> <<98, 99>>

\* to_le_bytes: the eight bytes of a number, kept as one item.
ToLeBytes(x) == <<[le_bytes |-> x]>>

GenerateCommitment(order_data) ==
    AsBytes(order_data.trader) \o AsBytes(order_data.pool_key)
        \o ToLeBytes(order_data.amount) \o ToLeBytes(order_data.price)
        \o ToLeBytes(order_data.deadline) \o order_data.nonce

VerifyCommitment(order_data, commitment) ==
    LET calculated_commitment == GenerateCommitment(order_data)
    IN calculated_commitment = commitment

CommitmentDatas ==
    [trader : {"a", "ab"}, pool_key : {"c", "bc"}, order_type : {"Buy", "Sell"},
     amount : {Fx(100), Fx(200)}, price : {Fx(2000)}, deadline : {3600},
     nonce : {<<1>>, <<2>>}]

\* The commitment of one record is verified against another.
VerifyCommitmentCall(order_data, committed) ==
    /\ envelope' = Some([kind |-> "commitment", item |-> committed, plain |-> order_data])
    /\ crypto_ret' = [op |-> "verify_commitment", ok |-> TRUE, err |-> "",
                      value |-> Some(VerifyCommitment(order_data,
                                                      GenerateCommitment(committed)))]
    /\ UNCHANGED <<encryption, nonces_used, cryptoRest>>

NextCommitment ==
    \E order_data \in CommitmentDatas, committed \in CommitmentDatas :
        VerifyCommitmentCall(order_data, committed)

SpecCommitment == InitCrypto /\ [][NextCommitment]_vars

---------------------------------------------------------------------------
(* Claims: commitments *)

\* C34: verify_commitment(o, c) is true exactly when c is
\* generate_commitment(o), and two order data records that differ in trader,
\* pool, side, amount, price, deadline or nonce have different commitments:
\* a record verifies against the commitment of another only if the two are
\* equal.
C34_CommitmentBindsContents ==
    crypto_ret.op = "verify_commitment" =>
        /\ crypto_ret.value[1] <=>
              GenerateCommitment(envelope[1].plain) = GenerateCommitment(envelope[1].item)
        /\ crypto_ret.value[1] => envelope[1].plain = envelope[1].item

====
